---- MODULE Spec2Model ----
(***************************************************************************)
(* State-machine model of the registry-based MCP Docker server             *)
(* (src/unnamed/part_001: NewServer, RegisterTool, ExecutePlan, CallTool), *)
(* its Docker helpers (package docker, src/pkg/cmd/rootcmd.go:31-109) and  *)
(* the response envelope (package mcp, src/unnamed/part_009).              *)
(*                                                                         *)
(* A request is followed from the moment net/rpc calls the method to the   *)
(* moment the method has written *reply.  The Docker daemon and the JSON   *)
(* text are the environment: a Docker call returns success or an error,    *)
(* and a plan text is given by the JSON value it denotes (or by the fact   *)
(* that it denotes none).                                                  *)
(***************************************************************************)
EXTENDS Integers, Sequences, FiniteSets, TLC

VARIABLES
    phase,      \* "new" | "registering" | "serving" | "fatal": position in StartRPCServer
    regpc,      \* number of RegisterTool calls NewServer has made
    tools,      \* Server.tools: map[string]RegisteredTool
    lastReg,    \* history: for each name, the arguments of the last RegisterTool call
    pc,         \* "idle" | "loop" | "blocked" | "done": position of the request in flight
    req,        \* the request in flight (method and arguments)
    plan,       \* ExecutePlan's local `plan` after json.Unmarshal
    idx,        \* 1-based position of the range loop over plan
    pending,    \* the Docker call the running handler is blocked on
    invoked,    \* history: handler invocations of the request in flight
    calls,      \* history: Docker client calls issued for the request in flight
    reply,      \* *reply as written by the method
    elapsed,    \* time since net/rpc called the method, in seconds
    deadline,   \* deadline of ctx, the context of the request in flight
    callDeadline, \* deadline of the context the pending Docker call runs under
    llmpc,      \* position of the CallLLM request in flight: idle, waiting, done
    llmTools,   \* registeredTools as handed to GeneratePlan
    llmResp,    \* what GeneratePlan returned
    llmOut,     \* CallLLM's returned error and *reply
    client,     \* the client program: its position in main and what it holds
    other       \* a second request, served on its own goroutine: a CallTool call

vars == <<phase, regpc, tools, lastReg, pc, req, plan, idx, pending, invoked, calls, reply,
          elapsed, deadline, callDeadline, llmpc, llmTools, llmResp, llmOut, client, other>>
cliVars == <<client, other>>
llmVars == <<llmpc, llmTools, llmResp, llmOut>>
srvVars == <<phase, regpc, tools, lastReg>>
reqVars == <<pc, req, plan, idx, pending, invoked, calls, reply, elapsed, deadline, callDeadline>>
timeVars == <<elapsed, deadline, callDeadline>>

----------------------------------------------------------------------------
(* Bounds of the model *)

\* longest plan array that is submitted
MaxPlanLen == 3

\* most RegisterTool calls a caller of the registry makes (SpecRegistry)
MaxRegistrations == 3

----------------------------------------------------------------------------
(* JSON values as encoding/json decodes them into interface{} *)

\* a key that is not in the map (a nil interface; a JSON null decodes to the same)
JAbsent == [t |-> "absent", s |-> ""]
\* a JSON number (float64): stands for every value that is not a string
JNum == [t |-> "num", s |-> ""]
\* a JSON string
JStr(x) == [t |-> "str", s |-> x]

\* a JSON array ([]interface{}) and a JSON object (map[string]interface{}) given as
\* a parameter: of strings only, or with a value that is not a string
JList(of) == [t |-> "list", s |-> of]
JMap(of) == [t |-> "map", s |-> of]

\* Go's two-valued type assertion v.(string)
AsString(v) == [s |-> IF v.t = "str" THEN v.s ELSE "", ok |-> v.t = "str"]

\* the keys the handlers read from a parameter bag
NameVals == {JAbsent, JNum, JStr(""), JStr("redis")}
ImageVals == {JAbsent, JNum, JStr(""), JStr("nginx:latest")}
TagVals == {JAbsent, JNum, JStr(""), JStr("7")}
Bags == [name : NameVals, image : ImageVals, tag : TagVals,
         volumes : {JAbsent}, networks : {JAbsent}, environment : {JAbsent}]

\* a nil map[string]interface{}: every lookup yields the nil interface
NilBag == [name |-> JAbsent, image |-> JAbsent, tag |-> JAbsent,
           volumes |-> JAbsent, networks |-> JAbsent, environment |-> JAbsent]

\* a bag with the keys the handlers read, and one that also has the keys they do not
BagWith(n, i, t, vols, nets, env) ==
    [name |-> n, image |-> i, tag |-> t, volumes |-> vols, networks |-> nets, environment |-> env]
Bag(n, i, t) == BagWith(n, i, t, JAbsent, JAbsent, JAbsent)

----------------------------------------------------------------------------
(* Response envelope: mcp.RPCResponse, mcp.RPCError, mcp.NewError *)

JSONRPCVersion == "2.0"

CodeParseError == -32700
CodeUnknown == -32601
CodeInvalidParams == -32602
CodeExecution == -32000

NoError == [present |-> FALSE, Code |-> 0, Message |-> <<>>]
NoResult == [present |-> FALSE, status |-> "", message |-> <<>>]

\* mcp.NewError: a non-nil *RPCError
NewError(code, msg) == [present |-> TRUE, Code |-> code, Message |-> msg]

\* the reply net/rpc allocates for a call: the zero RPCResponse
ZeroResponse == [Version |-> "", Result |-> NoResult, Error |-> NoError, ID |-> "nil"]

\* response := mcp.RPCResponse{Version: mcp.JSONRPCVersion}: Result, Error, ID are nil
EmptyResponse == [Version |-> JSONRPCVersion, Result |-> NoResult, Error |-> NoError, ID |-> "nil"]

\* mutant of ErrorResponse: the error path returns without *reply = response
ErrorResponseUnwritten(code, msg) == ZeroResponse

\* response.Error = mcp.NewError(code, msg); *reply = response
ErrorResponse(code, msg) == [EmptyResponse EXCEPT !.Error = NewError(code, msg)]

\* json.Marshal(map[string]string{"status": "success", "message": msg}) never fails;
\* response.Result = json.RawMessage(result); *reply = response
SuccessResponse(msg) ==
    [EmptyResponse EXCEPT !.Result = [present |-> TRUE, status |-> "success", message |-> msg]]

\* fmt.Sprintf keeps its arguments verbatim: a message is the sequence of its pieces
Contains(msg, piece) == \E i \in 1..Len(msg) : msg[i] = piece

----------------------------------------------------------------------------
(* Contexts: context.Background, context.WithTimeout.  A context is given   *)
(* by its deadline, in seconds since the method was called.                 *)

\* 30*time.Second of ExecutePlan
PlanTimeout == 30
\* 30*time.Second of CallTool
CallTimeout == 30
\* 2*time.Minute of docker.PullImage
PullTimeout == 120

\* context.Background() has no deadline: later than every instant
NoDeadline == 1000000

\* the deadline of context.WithTimeout(parent, d) made at `now`: never later than
\* the parent's
WithTimeout(parent, now, d) == IF now + d < parent THEN now + d ELSE parent

\* a context is done from its deadline on
Expired(now, d) == now >= d

\* the error of a Docker call whose context is done
DeadlineExceeded == "context deadline exceeded"

\* the instants at which the model looks at a request that takes time
Instants == {10, 20, 30, 40, 120}

----------------------------------------------------------------------------
(* Package docker: the helpers the registered handlers delegate to.  Each   *)
(* returns either an error before any Docker call, or the Docker client     *)
(* call it issues (whose outcome the daemon decides).                       *)

NoCall == [op |-> "none", a1 |-> "", a2 |-> ""]
Fail(msg) == [err |-> TRUE, msg |-> msg, call |-> NoCall]
Issue(op, a1, a2) == [err |-> FALSE, msg |-> "", call |-> [op |-> op, a1 |-> a1, a2 |-> a2]]

\* mutant of CreateNetwork: the empty-name check is missing
CreateNetworkUnchecked(name) == Issue("NetworkCreate", name, "")

\* docker.CreateNetwork: cli.NetworkCreate(ctx, name, ...)
CreateNetwork(name) ==
    IF name = "" THEN Fail("missing network name")
    ELSE Issue("NetworkCreate", name, "")

\* docker.CreateContainer: cli.ContainerCreate(ctx, &container.Config{Image: image}, ..., name)
CreateContainer(name, image) ==
    IF name = "" \/ image = "" THEN Fail("missing container name or image")
    ELSE Issue("ContainerCreate", image, name)

\* docker.CreateVolume: cli.VolumeCreate(ctx, volume.CreateOptions{Name: name})
CreateVolume(name) ==
    IF name = "" THEN Fail("invalid or missing volume name")
    ELSE Issue("VolumeCreate", name, "")

\* docker.RunContainer: cli.ContainerStart(ctx, name, ...)
RunContainer(name) ==
    IF name = "" THEN Fail("invalid container name")
    ELSE Issue("ContainerStart", name, "")

\* the default of docker.PullImage when "tag" is absent, empty or not a string
DefaultTag == "latest"

\* mutant of PullImageRef: an empty "tag" string is not replaced by the default
PullImageRefEmptyTag(parameters) ==
    LET image == AsString(parameters.image)
        name == AsString(parameters.name)
        tag == AsString(parameters.tag)
    IN  IF ~image.ok \/ image.s = ""
        THEN IF ~name.ok \/ name.s = ""
             THEN [err |-> TRUE, image |-> ""]
             ELSE [err |-> FALSE,
                   image |-> name.s \o ":" \o (IF ~tag.ok THEN DefaultTag ELSE tag.s)]
        ELSE [err |-> FALSE, image |-> image.s]

\* docker.PullImage, first half: the image reference (fmt.Sprintf("%s:%s", name, tag))
PullImageRef(parameters) ==
    LET image == AsString(parameters.image)
        name == AsString(parameters.name)
        tag == AsString(parameters.tag)
    IN  IF ~image.ok \/ image.s = ""
        THEN IF ~name.ok \/ name.s = ""
             THEN [err |-> TRUE, image |-> ""]
             ELSE [err |-> FALSE,
                   image |-> name.s \o ":" \o (IF ~tag.ok \/ tag.s = "" THEN DefaultTag ELSE tag.s)]
        ELSE [err |-> FALSE, image |-> image.s]

\* docker.PullImage: cli.ImagePull(pullCtx, image, ...), then io.Copy of the stream
PullImage(parameters) ==
    LET ref == PullImageRef(parameters)
    IN  IF ref.err THEN Fail("missing image name for pull_image")
        ELSE Issue("ImagePull", ref.image, "")

\* the texts a handler returns without having called Docker
ValidationMessages ==
    {"missing network name", "missing container name or image",
     "invalid or missing volume name", "invalid container name",
     "missing image name for pull_image"}

\* the error text of a failed Docker call
DockerError == "Error response from daemon"

----------------------------------------------------------------------------
(* The handler closures NewServer registers (ToolHandler), named after the  *)
(* docker helper each one delegates to.                                     *)

Handlers == {"CreateNetwork", "CreateContainer", "CreateVolume", "RunContainer", "PullImage"}

\* the closure registered for create_network
CreateNetworkHandler(params) == CreateNetwork(AsString(params.name).s)

\* the closure registered for create_container (checks before delegating)
CreateContainerHandler(params) ==
    LET name == AsString(params.name).s
        image == AsString(params.image).s
    IN  IF name = "" \/ image = "" THEN Fail("missing container name or image")
        ELSE CreateContainer(name, image)

\* the closure registered for create_volume
CreateVolumeHandler(params) == CreateVolume(AsString(params.name).s)

\* the closure registered for run_container
RunContainerHandler(params) == RunContainer(AsString(params.name).s)

\* mutant of PullImageHandler: the schema's required key is checked first
PullImageHandlerRequiresImage(params) ==
    IF params.image = JAbsent THEN Fail("missing required parameter: image") ELSE PullImage(params)

\* the closure registered for pull_image
PullImageHandler(params) == PullImage(params)

\* tool.Handler(ctx, s, parameters) up to its first Docker call
RunHandler(h, params) ==
    CASE h = "CreateNetwork" -> CreateNetworkHandler(params)
      [] h = "CreateContainer" -> CreateContainerHandler(params)
      [] h = "CreateVolume" -> CreateVolumeHandler(params)
      [] h = "RunContainer" -> RunContainerHandler(params)
      [] h = "PullImage" -> PullImageHandler(params)

\* mutant of CallCtx: the Docker call is made under context.Background()
CallCtxBackground(h, ctx, now) == NoDeadline

\* the context of the handler's Docker call: ctx itself, or for docker.PullImage
\* pullCtx := context.WithTimeout(ctx, 2*time.Minute)
CallCtx(h, ctx, now) == IF h = "PullImage" THEN WithTimeout(ctx, now, PullTimeout) ELSE ctx

----------------------------------------------------------------------------
(* Tool registry: Server.tools and RegisterTool *)

Schema(props, required) == [properties |-> props, required |-> required]

\* the five RegisterTool calls of NewServer, in program order
BuiltinTools ==
    << [name |-> "create_network", description |-> "Create a Docker network",
        inputSchema |-> Schema({"name"}, {"name"}), handler |-> "CreateNetwork"],
       [name |-> "create_container", description |-> "Create a Docker container",
        inputSchema |-> Schema({"name", "image"}, {"name", "image"}), handler |-> "CreateContainer"],
       [name |-> "create_volume", description |-> "Create a Docker volume",
        inputSchema |-> Schema({"name"}, {"name"}), handler |-> "CreateVolume"],
       [name |-> "run_container", description |-> "Run (start) a Docker container",
        inputSchema |-> Schema({"name"}, {"name"}), handler |-> "RunContainer"],
       [name |-> "pull_image", description |-> "Pull a Docker image",
        inputSchema |-> Schema({"image", "name", "tag"}, {"image"}), handler |-> "PullImage"] >>

\* mutant of RegisteredTool: the Name field is filled from the description
RegisteredToolMisnamed(name, description, inputSchema, handler) ==
    [Name |-> description, Description |-> description, InputSchema |-> inputSchema,
     Handler |-> handler]

\* type RegisteredTool struct
RegisteredTool(name, description, inputSchema, handler) ==
    [Name |-> name, Description |-> description, InputSchema |-> inputSchema, Handler |-> handler]

\* tools: make(map[string]RegisteredTool)
EmptyRegistry == [n \in {} |-> RegisteredTool("", "", Schema({}, {}), "")]

\* mutant of RegisterTool: an existing entry is kept
RegisterToolKeepFirst(ts, name, description, inputSchema, handler) ==
    IF name \in DOMAIN ts THEN ts
    ELSE [n \in DOMAIN ts \cup {name} |->
            IF n = name THEN RegisteredTool(name, description, inputSchema, handler) ELSE ts[n]]

\* the map after s.tools[name] = RegisteredTool{...}
RegisterTool(ts, name, description, inputSchema, handler) ==
    [n \in DOMAIN ts \cup {name} |->
        IF n = name THEN RegisteredTool(name, description, inputSchema, handler) ELSE ts[n]]

----------------------------------------------------------------------------
(* The plan text handed to ExecutePlan, and json.Unmarshal into             *)
(* []map[string]interface{}                                                 *)

\* elements of a JSON array: null, a number (any non-object), or an object with
\* its "action" value, its "parameters" value (absent, a non-object, an object) and
\* the keys it has besides these two
ElemNull == [kind |-> "null", action |-> JAbsent, ptype |-> "absent", params |-> NilBag, top |-> NilBag]
ElemNum == [kind |-> "num", action |-> JAbsent, ptype |-> "absent", params |-> NilBag, top |-> NilBag]
ObjTop(action, ptype, params, top) ==
    [kind |-> "obj", action |-> action, ptype |-> ptype, params |-> params, top |-> top]
Obj(action, ptype, params) == ObjTop(action, ptype, params, NilBag)
Act(name, params) == Obj(JStr(name), "obj", params)

\* a name no tool is registered under
UnregisteredName == "Create_Network"

\* the array elements plans are built from
PlanElems ==
    { ElemNull, ElemNum,
      Obj(JStr(""), "absent", NilBag),
      Act(UnregisteredName, Bag(JStr("redis"), JAbsent, JAbsent)),
      Act("create_network", Bag(JStr("redis"), JAbsent, JAbsent)),
      Act("create_container", Bag(JStr("redis"), JStr("nginx:latest"), JAbsent)),
      Act("create_container", Bag(JStr("redis"), JAbsent, JAbsent)),
      Act("run_container", Bag(JStr("redis"), JAbsent, JAbsent)),
      Act("pull_image", Bag(JStr("redis"), JAbsent, JAbsent)),
      Obj(JStr("create_volume"), "nonobj", NilBag) }

SeqsUpTo(S, n) == UNION {[1..k -> S] : k \in 0..n}

\* plan texts: "", text that is not JSON, null, a JSON value that is neither null
\* nor an array, and arrays
\* a text also has a form: its whitespace and the order of its keys, compact and
\* sorted as json.Marshal writes it, or otherwise
Text(kind, elems, form) == [kind |-> kind, elems |-> elems, form |-> form]
InEmpty == Text("empty", <<>>, "compact")
InBadSyntax == Text("bad", <<>>, "compact")
InNull == Text("null", <<>>, "compact")
InNonArray == Text("nonarray", <<>>, "compact")
InArray(elems) == Text("array", elems, "compact")
NoInput == Text("none", <<>>, "compact")

PlanInputs ==
    {InEmpty, InBadSyntax, InNull, InNonArray} \cup {InArray(e) : e \in SeqsUpTo(PlanElems, MaxPlanLen)}

\* the map an array element decodes to: null leaves the element a nil map
DecodeElem(e) ==
    IF e.kind = "obj"
    THEN [action |-> e.action, ptype |-> e.ptype, params |-> e.params, top |-> e.top, nil |-> FALSE]
    ELSE [action |-> JAbsent, ptype |-> "absent", params |-> NilBag, top |-> NilBag, nil |-> TRUE]

\* mutant of Unmarshal: an element of the wrong JSON type is skipped without error
UnmarshalLenient(input) ==
    CASE input.kind \in {"empty", "bad"} -> [err |-> TRUE, nil |-> TRUE, plan |-> <<>>]
      [] input.kind = "nonarray" -> [err |-> TRUE, nil |-> TRUE, plan |-> <<>>]
      [] input.kind = "null" -> [err |-> FALSE, nil |-> TRUE, plan |-> <<>>]
      [] input.kind = "array" ->
            [err |-> FALSE, nil |-> FALSE,
             plan |-> [i \in 1..Len(input.elems) |-> DecodeElem(input.elems[i])]]

\* json.Unmarshal([]byte(*args), &plan): a syntax error (the empty text included)
\* and a type mismatch (a top-level value or an element of the wrong JSON type) are
\* errors; null is not, and leaves plan nil
Unmarshal(input) ==
    CASE input.kind \in {"empty", "bad"} -> [err |-> TRUE, nil |-> TRUE, plan |-> <<>>]
      [] input.kind = "nonarray" -> [err |-> TRUE, nil |-> TRUE, plan |-> <<>>]
      [] input.kind = "null" -> [err |-> FALSE, nil |-> TRUE, plan |-> <<>>]
      [] input.kind = "array" ->
            [err |-> \E i \in 1..Len(input.elems) : input.elems[i].kind = "num",
             nil |-> FALSE,
             plan |-> [i \in 1..Len(input.elems) |-> DecodeElem(input.elems[i])]]

----------------------------------------------------------------------------
(* Server.CallLLM: the tool list for the language model, and what becomes   *)
(* of the model's response                                                  *)

\* mutant of LLMTool: the tool is described without its parameters
LLMToolNoSchema(tool) ==
    [Type |-> "function",
     Function |-> [Name |-> tool.Name, Description |-> tool.Description,
                   Parameters |-> Schema({}, {})]]

\* llms.Tool{Type: "function", Function: &llms.FunctionDefinition{...}}
LLMTool(tool) ==
    [Type |-> "function",
     Function |-> [Name |-> tool.Name, Description |-> tool.Description,
                   Parameters |-> tool.InputSchema]]

\* the orders in which `for _, tool := range s.tools` can visit the map
Orderings(S) ==
    {f \in [1..Cardinality(S) -> S] : \A i, j \in 1..Cardinality(S) : f[i] = f[j] => i = j}

\* what GeneratePlan returns: an error, a response without choices, or a response
\* whose first choice has the given content
NoResponse == [status |-> "none", content |-> NoInput]
LLMFailed == [status |-> "error", content |-> NoInput]
NoChoice == [status |-> "nochoice", content |-> NoInput]
Choice(content) == [status |-> "choice", content |-> content]

\* the error of the OpenAI client
LLMError == "API returned unexpected status code"

\* array elements a model's plan is built from
LLMElems == {ElemNum, Act("create_network", Bag(JStr("net"), JAbsent, JAbsent))}
Forms == {"compact", "pretty"}
LLMContents ==
    {Text(k, <<>>, f) : k \in {"empty", "bad", "null", "nonarray"}, f \in Forms}
    \cup {Text("array", e, f) : e \in SeqsUpTo(LLMElems, MaxPlanLen), f \in Forms}
    \cup {Text("array", <<Act("create_volume", Bag(JStr("vol"), JAbsent, JAbsent)), ElemNull>>, f) :
            f \in Forms}
LLMResponses == {LLMFailed, NoChoice} \cup {Choice(c) : c \in LLMContents}

\* json.Marshal of one map of the plan: a nil map is written as null
EncodeElem(a) ==
    IF a.nil THEN ElemNull ELSE ObjTop(a.action, a.ptype, a.params, a.top)

\* mutant of Marshal: the plan is written as an object wrapping the array
MarshalWrapped(u) == Text("nonarray", <<>>, "compact")

\* json.Marshal(plan): compact, keys sorted; a nil slice is written as null
Marshal(u) ==
    IF u.nil THEN Text("null", <<>>, "compact")
    ELSE Text("array", [i \in 1..Len(u.plan) |-> EncodeElem(u.plan[i])], "compact")

\* CallLLM's outcome: the error it returns (no pieces: nil) and *reply
NoOutcome == [err |-> <<>>, reply |-> InEmpty]
Refused(msg) == [err |-> msg, reply |-> InEmpty]

\* mutant of CallLLM: the content of the first choice is returned as it is
CallLLMUnvalidated(resp) ==
    CASE resp.status = "error" -> Refused(<<"CallLLM OpenAI API error: ", LLMError>>)
      [] resp.status = "nochoice" -> Refused(<<"CallLLM received an empty response from OpenAI">>)
      [] resp.status = "choice" -> [err |-> <<>>, reply |-> resp.content]

\* CallLLM after GeneratePlan has returned
CallLLM(resp) ==
    CASE resp.status = "error" -> Refused(<<"CallLLM OpenAI API error: ", LLMError>>)
      [] resp.status = "nochoice" -> Refused(<<"CallLLM received an empty response from OpenAI">>)
      [] resp.status = "choice" ->
            LET u == Unmarshal(resp.content)
            IN  IF u.err THEN Refused(<<"CallLLM returned invalid JSON: ", "json error">>)
                ELSE [err |-> <<>>, reply |-> Marshal(u)]

----------------------------------------------------------------------------
(* Requests as the jsonrpc server codec reads them *)

\* the ids requests come with: RPCClient.Call sends every request with ID: 1
RequestIds == {"1"}

\* a request: its id, the method it names and the method's argument
Request(id, method, input, tool, params) ==
    [id |-> id, method |-> method, input |-> input, tool |-> tool, params |-> params]
NoRequest == Request("", "none", NoInput, "", NilBag)

----------------------------------------------------------------------------
(* The wire and the client: what the jsonrpc server codec writes for a       *)
(* method's return, and what RPCClient.Call, CallAndParse and the client's   *)
(* main make of it.                                                          *)

\* a JSON value on the wire: null, a string, or an object
WireNull == [t |-> "null", text |-> InEmpty, env |-> ZeroResponse, msg |-> <<>>]
WireString(text) == [t |-> "string", text |-> text, env |-> ZeroResponse, msg |-> <<>>]
WireErrorString(msg) == [t |-> "string", text |-> InEmpty, env |-> ZeroResponse, msg |-> msg]
WireEnvelope(env) == [t |-> "object", text |-> InEmpty, env |-> env, msg |-> <<>>]

\* rpcServer.ServeCodec(jsonrpc.NewServerCodec(...)): the codec's response object
\* has the request's id, the method's *reply under "result" and null under
\* "error" when the method returned nil, and null under "result" and the
\* error's text under "error" otherwise
ServeCodec(id, err, value) ==
    IF err = <<>>
    THEN [id |-> id, result |-> value, error |-> WireNull]
    ELSE [id |-> id, result |-> WireNull, error |-> WireErrorString(err)]

\* func (e *RPCError) String()
String(e) == <<"RPC Error [Code: ", e.Code, "]: ">> \o e.Message

\* RPCClient.Call from json.Unmarshal(body, &rpcResp) on: the response object is
\* read as an mcp.RPCResponse, whose Error is a *RPCError
Call(wire) ==
    CASE wire.error.t = "string" ->
            [err |-> <<"failed to unmarshal response: ", "json error">>, result |-> WireNull]
      [] wire.error.t = "object" /\ wire.error.env.Error.present ->
            [err |-> String(wire.error.env.Error), result |-> WireNull]
      [] OTHER -> [err |-> <<>>, result |-> wire.result]

\* json.Unmarshal(result, out) for out *string: null leaves out as it was
ParseString(result, out) ==
    CASE result.t = "string" -> [err |-> <<>>, out |-> result.text]
      [] result.t = "null" -> [err |-> <<>>, out |-> out]
      [] OTHER -> [err |-> <<"failed to parse result into ", "*string">>, out |-> out]

\* json.Unmarshal(result, out) for out *mcp.RPCResponse: the object's members
\* fill the fields by name; null leaves out as it was
ParseResponse(result, out) ==
    CASE result.t = "object" -> [err |-> <<>>, out |-> result.env]
      [] result.t = "null" -> [err |-> <<>>, out |-> out]
      [] OTHER -> [err |-> <<"failed to parse result into ", "*mcp.RPCResponse">>, out |-> out]

\* RPCClient.CallAndParse, for the two types of out the client passes
CallAndParse(wire, out, type) ==
    LET r == Call(wire)
    IN  IF r.err # <<>> THEN [err |-> r.err, out |-> out]
        ELSE IF type = "*string" THEN ParseString(r.result, out)
        ELSE ParseResponse(r.result, out)

\* json.Valid([]byte(planJSON))
Valid(text) == text.kind \in {"null", "nonarray", "array"}

\* json.Unmarshal(execResp.Result, &result) into map[string]string, and the
\* result["status"], result["message"] main prints: a null Result leaves the map
\* nil, and a nil map gives "" for every key
ResultMap(execResp) ==
    IF execResp.Result.present
    THEN [status |-> execResp.Result.status, message |-> execResp.Result.message]
    ELSE [status |-> "", message |-> <<>>]

\* the client program: "start" until CallLLM has answered, "plan" while it holds
\* planJSON and until ExecutePlan has answered, then "printed" (the result line
\* is on stdout) or "fatal" (log.Fatalf)
ClientAt(at, planJSON, err, execResp, status, message) ==
    [pc |-> at, planJSON |-> planJSON, err |-> err, execResp |-> execResp,
     status |-> status, message |-> message]
ClientStart == ClientAt("start", InEmpty, <<>>, ZeroResponse, "", <<>>)
ClientFatal(planJSON, err) == ClientAt("fatal", planJSON, err, ZeroResponse, "", <<>>)

----------------------------------------------------------------------------
(* A second request.  net/http serves every POST on a goroutine of its own,  *)
(* so a CallTool call can run while the request above is in flight.  Its     *)
(* locals (response, tool, ctx) are the fields of `other`; elapsed is the     *)
(* time since net/rpc called it.                                             *)

OtherAt(at, name, parameters) ==
    [pc |-> at, tool |-> name, params |-> parameters, began |-> elapsed,
     invocations |-> 0, ret |-> "none",
     err |-> "", retAt |-> 0, pending |-> NoCall, reply |-> ZeroResponse, elapsed |-> 0,
     deadline |-> NoDeadline, callDeadline |-> NoDeadline]
OtherIdle == [OtherAt("idle", "", NilBag) EXCEPT !.began = 0]

----------------------------------------------------------------------------
(* Server startup: StartRPCServer and NewServer *)

NoRegistrations == [n \in {} |-> [description |-> "", inputSchema |-> Schema({}, {}), handler |-> ""]]

Init ==
    /\ phase = "new"
    /\ regpc = 0
    /\ tools = EmptyRegistry
    /\ lastReg = NoRegistrations
    /\ pc = "idle"
    /\ req = NoRequest
    /\ plan = <<>>
    /\ idx = 0
    /\ pending = NoCall
    /\ invoked = <<>>
    /\ calls = <<>>
    /\ reply = ZeroResponse
    /\ elapsed = 0
    /\ deadline = NoDeadline
    /\ callDeadline = NoDeadline
    /\ llmpc = "idle"
    /\ llmTools = <<>>
    /\ llmResp = NoResponse
    /\ llmOut = NoOutcome
    /\ client = ClientStart
    /\ other = OtherIdle

\* NewServer returns an error (no Docker client, OPENAI_API_KEY unset, no LLM
\* client): StartRPCServer ends the process with log.Fatalf
NewServerFails ==
    /\ phase = "new"
    /\ phase' = "fatal"
    /\ UNCHANGED <<regpc, tools, lastReg>>
    /\ UNCHANGED reqVars
    /\ UNCHANGED llmVars
    /\ UNCHANGED cliVars

\* NewServer builds the Server with an empty tools map
NewServerAllocates ==
    /\ phase = "new"
    /\ phase' = "registering"
    /\ tools' = EmptyRegistry
    /\ UNCHANGED <<regpc, lastReg>>
    /\ UNCHANGED reqVars
    /\ UNCHANGED llmVars
    /\ UNCHANGED cliVars

\* one s.RegisterTool(name, description, inputSchema, handler) call
DoRegisterTool(name, description, inputSchema, handler) ==
    /\ tools' = RegisterTool(tools, name, description, inputSchema, handler)
    /\ lastReg' = [n \in DOMAIN lastReg \cup {name} |->
                     IF n = name
                     THEN [description |-> description, inputSchema |-> inputSchema, handler |-> handler]
                     ELSE lastReg[n]]

\* NewServer's next RegisterTool call
NewServerRegisters ==
    /\ phase = "registering"
    /\ regpc < Len(BuiltinTools)
    /\ LET t == BuiltinTools[regpc + 1]
       IN  DoRegisterTool(t.name, t.description, t.inputSchema, t.handler)
    /\ regpc' = regpc + 1
    /\ UNCHANGED phase
    /\ UNCHANGED reqVars
    /\ UNCHANGED llmVars
    /\ UNCHANGED cliVars

\* mutant of StartRPCServer: the server listens before NewServer has returned
StartRPCServerEarly ==
    /\ phase = "registering"
    /\ phase' = "serving"
    /\ UNCHANGED <<regpc, tools, lastReg>>
    /\ UNCHANGED reqVars
    /\ UNCHANGED llmVars
    /\ UNCHANGED cliVars

\* NewServer returns s; StartRPCServer registers it and listens
StartRPCServer ==
    /\ phase = "registering"
    /\ regpc = Len(BuiltinTools)
    /\ phase' = "serving"
    /\ UNCHANGED <<regpc, tools, lastReg>>
    /\ UNCHANGED reqVars
    /\ UNCHANGED llmVars
    /\ UNCHANGED cliVars

----------------------------------------------------------------------------
(* Requests: Server.ExecutePlan and Server.CallTool *)

\* mutant of HandlerFailedMessage: the error's text is left out
HandlerFailedMessageGeneric(name, errText) == <<"failed to execute tool ", name>>

\* fmt.Sprintf("failed to execute tool %s: %v", name, err)
HandlerFailedMessage(name, errText) == <<"failed to execute tool ", name, ": ", errText>>

\* the reply of ExecutePlan and CallTool when tool.Handler returns err
HandlerFailed(name, errText) == ErrorResponse(CodeExecution, HandlerFailedMessage(name, errText))

\* mutant of UnknownActionReply: an unknown action is reported with the JSON-RPC
\* "invalid request" code
UnknownActionReplyInvalidRequest(name) == ErrorResponse(-32600, <<"unknown action: ", name>>)

\* mutant of UnknownActionReply: the message does not name the action
UnknownActionReplyUnnamed(name) == ErrorResponse(CodeUnknown, <<"unknown action">>)

\* ExecutePlan's reply for an action name that is not a key of s.tools
UnknownActionReply(name) == ErrorResponse(CodeUnknown, <<"unknown action: ", name>>)

\* mutant of UnknownToolReply: CallTool reports an unknown tool as invalid params
UnknownToolReplyInvalidParams(name) == ErrorResponse(CodeInvalidParams, <<"unknown tool: ", name>>)

\* CallTool's reply for a tool name that is not a key of s.tools
UnknownToolReply(name) == ErrorResponse(CodeUnknown, <<"unknown tool: ", name>>)

\* mutant of ExecutePlanEntry: the len(plan) == 0 check is missing
ExecutePlanEntryNoEmptyCheck(input) ==
    IF input.kind = "empty"
    THEN [done |-> TRUE, plan |-> <<>>,
          reply |-> ErrorResponse(CodeInvalidParams, <<"ExecutePlan received empty plan">>)]
    ELSE LET u == Unmarshal(input)
         IN  IF u.err
             THEN [done |-> TRUE, plan |-> <<>>,
                   reply |-> ErrorResponse(CodeParseError, <<"failed to parse plan JSON: ", "json error">>)]
             ELSE [done |-> FALSE, plan |-> u.plan, reply |-> ZeroResponse]

\* ExecutePlan before its loop: the empty-string check, json.Unmarshal, len(plan) == 0
ExecutePlanEntry(input) ==
    IF input.kind = "empty"
    THEN [done |-> TRUE, plan |-> <<>>,
          reply |-> ErrorResponse(CodeInvalidParams, <<"ExecutePlan received empty plan">>)]
    ELSE LET u == Unmarshal(input)
         IN  IF u.err
             THEN [done |-> TRUE, plan |-> <<>>,
                   reply |-> ErrorResponse(CodeParseError, <<"failed to parse plan JSON: ", "json error">>)]
             ELSE IF Len(u.plan) = 0
             THEN [done |-> TRUE, plan |-> <<>>,
                   reply |-> ErrorResponse(CodeInvalidParams, <<"received empty plan from LLM">>)]
             ELSE [done |-> FALSE, plan |-> u.plan, reply |-> ZeroResponse]

\* actionType, ok := action["action"].(string)
ActionType(action) == AsString(action.action)

\* mutant of InvalidActionFormat: only the type assertion is looked at
InvalidActionFormatTypeOnly(actionType) == ~actionType.ok

\* !ok || actionType == ""
InvalidActionFormat(actionType) == ~actionType.ok \/ actionType.s = ""

\* mutant of ActionParameters: without a "parameters" object the action's own keys
\* are the parameters
ActionParametersFromTop(action) == IF action.ptype = "obj" THEN action.params ELSE action.top

\* parameters, _ := action["parameters"].(map[string]interface{}): nil unless an object
ActionParameters(action) == IF action.ptype = "obj" THEN action.params ELSE NilBag

\* tool, exists := s.tools[name]
Exists(ts, name) == name \in DOMAIN ts

\* mutant of NextIndex: the loop skips an action
SkipIndex(i) == i + 2

\* the range loop moves to the next action
NextIndex(i) == i + 1

\* mutant of HandlerCtx: every action gets a fresh 30 s
HandlerCtxPerAction(ctx, now) == now + PlanTimeout

\* the context ExecutePlan passes to tool.Handler: ctx, made once before the loop
HandlerCtx(ctx, now) == ctx

\* the record of an invocation: what was called, with which parameters and context,
\* when, and how it returned
Invocation(pos, name, h, parameters, ctx, r) ==
    [pos |-> pos, tool |-> name, handler |-> h, params |-> parameters,
     ret |-> IF r.err THEN "err" ELSE "running", err |-> r.msg,
     ctx |-> ctx, at |-> elapsed, retAt |-> elapsed]

\* tool.Handler(ctx, s, parameters) is called for position pos: it either returns
\* an error at once, or blocks on its Docker call
Invoke(pos, name, parameters) ==
    LET h == tools[name].Handler
        r == RunHandler(h, parameters)
        ctx == HandlerCtx(deadline, elapsed)
        entry == Invocation(pos, name, h, parameters, ctx, r)
    IN  /\ invoked' = Append(invoked, entry)
        /\ IF r.err
           THEN /\ reply' = HandlerFailed(name, r.msg)
                /\ pc' = "done"
                /\ UNCHANGED <<pending, calls, callDeadline>>
           ELSE /\ pending' = r.call
                /\ callDeadline' = CallCtx(h, ctx, elapsed)
                /\ calls' = Append(calls, [pos |-> pos, op |-> r.call.op, a1 |-> r.call.a1, a2 |-> r.call.a2])
                /\ pc' = "blocked"
                /\ UNCHANGED reply

\* net/rpc calls Server.ExecutePlan(args, reply)
ExecutePlanCall(input) ==
    /\ phase = "serving"
    /\ pc = "idle"
    /\ \E id \in RequestIds : req' = Request(id, "ExecutePlan", input, "", NilBag)
    /\ invoked' = <<>>
    /\ calls' = <<>>
    /\ pending' = NoCall
    /\ LET e == ExecutePlanEntry(input)
       IN  /\ plan' = e.plan
           /\ reply' = e.reply
           /\ pc' = IF e.done THEN "done" ELSE "loop"
           /\ idx' = IF e.done THEN 0 ELSE 1
           /\ deadline' = IF e.done THEN NoDeadline ELSE WithTimeout(NoDeadline, elapsed, PlanTimeout)
    /\ UNCHANGED <<elapsed, callDeadline>>
    /\ UNCHANGED srvVars
    /\ UNCHANGED llmVars
    /\ UNCHANGED cliVars

\* mutant of ExecutePlanDispatch: the loop does not wait for the handler to return
ExecutePlanDispatchAsync ==
    /\ pc \in {"loop", "blocked"}
    /\ Len(invoked) < MaxPlanLen
    /\ idx <= Len(plan)
    /\ LET action == plan[idx]
           actionType == ActionType(action)
       IN  IF InvalidActionFormat(actionType)
           THEN /\ reply' = ErrorResponse(CodeInvalidParams, <<"invalid action format">>)
                /\ pc' = "done"
                /\ UNCHANGED <<pending, invoked, calls, callDeadline>>
           ELSE IF Exists(tools, actionType.s)
           THEN Invoke(idx, actionType.s, ActionParameters(action))
           ELSE /\ reply' = UnknownActionReply(actionType.s)
                /\ pc' = "done"
                /\ UNCHANGED <<pending, invoked, calls, callDeadline>>
    /\ UNCHANGED <<req, plan, idx, elapsed, deadline>>
    /\ UNCHANGED srvVars
    /\ UNCHANGED llmVars
    /\ UNCHANGED cliVars

\* mutant of ExecutePlanDispatch: the loop looks at ctx.Err() before each action
ExecutePlanDispatchChecksDeadline ==
    /\ pc = "loop"
    /\ idx <= Len(plan)
    /\ LET action == plan[idx]
           actionType == ActionType(action)
       IN  IF Expired(elapsed, deadline)
           THEN /\ reply' = ErrorResponse(CodeExecution, <<"plan timed out: ", DeadlineExceeded>>)
                /\ pc' = "done"
                /\ UNCHANGED <<pending, invoked, calls, callDeadline>>
           ELSE IF InvalidActionFormat(actionType)
           THEN /\ reply' = ErrorResponse(CodeInvalidParams, <<"invalid action format">>)
                /\ pc' = "done"
                /\ UNCHANGED <<pending, invoked, calls, callDeadline>>
           ELSE IF Exists(tools, actionType.s)
           THEN Invoke(idx, actionType.s, ActionParameters(action))
           ELSE /\ reply' = UnknownActionReply(actionType.s)
                /\ pc' = "done"
                /\ UNCHANGED <<pending, invoked, calls, callDeadline>>
    /\ UNCHANGED <<req, plan, idx, elapsed, deadline>>
    /\ UNCHANGED srvVars
    /\ UNCHANGED llmVars
    /\ UNCHANGED cliVars

\* one iteration of `for _, action := range plan` up to the handler's Docker call
ExecutePlanDispatch ==
    /\ pc = "loop"
    /\ idx <= Len(plan)
    /\ LET action == plan[idx]
           actionType == ActionType(action)
       IN  IF InvalidActionFormat(actionType)
           THEN /\ reply' = ErrorResponse(CodeInvalidParams, <<"invalid action format">>)
                /\ pc' = "done"
                /\ UNCHANGED <<pending, invoked, calls, callDeadline>>
           ELSE IF Exists(tools, actionType.s)
           THEN Invoke(idx, actionType.s, ActionParameters(action))
           ELSE /\ reply' = UnknownActionReply(actionType.s)
                /\ pc' = "done"
                /\ UNCHANGED <<pending, invoked, calls, callDeadline>>
    /\ UNCHANGED <<req, plan, idx, elapsed, deadline>>
    /\ UNCHANGED srvVars
    /\ UNCHANGED llmVars
    /\ UNCHANGED cliVars

\* mutant of ExecutePlanSuccess: the confirmation names the last tool that ran
ExecutePlanSuccessCounts ==
    /\ pc = "loop"
    /\ idx > Len(plan)
    /\ reply' = SuccessResponse(<<"Plan executed successfully: ", invoked[Len(invoked)].tool>>)
    /\ pc' = "done"
    /\ UNCHANGED <<req, plan, idx, pending, invoked, calls>>
    /\ UNCHANGED timeVars
    /\ UNCHANGED srvVars
    /\ UNCHANGED llmVars
    /\ UNCHANGED cliVars

\* the loop has run out of actions: the fixed confirmation
ExecutePlanSuccess ==
    /\ pc = "loop"
    /\ idx > Len(plan)
    /\ reply' = SuccessResponse(<<"Plan executed successfully">>)
    /\ pc' = "done"
    /\ UNCHANGED <<req, plan, idx, pending, invoked, calls>>
    /\ UNCHANGED timeVars
    /\ UNCHANGED srvVars
    /\ UNCHANGED llmVars
    /\ UNCHANGED cliVars

\* mutant of CallToolCall: the handler is called without args.Parameters
CallToolCallDropsParameters(name, parameters) ==
    /\ phase = "serving"
    /\ pc = "idle"
    /\ \E id \in RequestIds : req' = Request(id, "CallTool", NoInput, name, parameters)
    /\ plan' = <<>>
    /\ idx' = 0
    /\ IF ~Exists(tools, name)
       THEN /\ reply' = UnknownToolReply(name)
            /\ pc' = "done"
            /\ invoked' = <<>>
            /\ calls' = <<>>
            /\ pending' = NoCall
            /\ UNCHANGED <<deadline, callDeadline>>
       ELSE LET h == tools[name].Handler
                r == RunHandler(h, NilBag)
                ctx == WithTimeout(NoDeadline, elapsed, CallTimeout)
            IN  /\ invoked' = <<Invocation(1, name, h, NilBag, ctx, r)>>
                /\ deadline' = ctx
                /\ IF r.err
                   THEN /\ reply' = HandlerFailed(name, r.msg)
                        /\ pc' = "done"
                        /\ pending' = NoCall
                        /\ calls' = <<>>
                        /\ UNCHANGED callDeadline
                   ELSE /\ reply' = ZeroResponse
                        /\ pc' = "blocked"
                        /\ pending' = r.call
                        /\ callDeadline' = CallCtx(h, ctx, elapsed)
                        /\ calls' = <<[pos |-> 1, op |-> r.call.op, a1 |-> r.call.a1, a2 |-> r.call.a2]>>
    /\ UNCHANGED elapsed
    /\ UNCHANGED srvVars
    /\ UNCHANGED llmVars
    /\ UNCHANGED cliVars

\* net/rpc calls Server.CallTool(args, reply)
CallToolCall(name, parameters) ==
    /\ phase = "serving"
    /\ pc = "idle"
    /\ \E id \in RequestIds : req' = Request(id, "CallTool", NoInput, name, parameters)
    /\ plan' = <<>>
    /\ idx' = 0
    /\ IF ~Exists(tools, name)
       THEN /\ reply' = UnknownToolReply(name)
            /\ pc' = "done"
            /\ invoked' = <<>>
            /\ calls' = <<>>
            /\ pending' = NoCall
            /\ UNCHANGED <<deadline, callDeadline>>
       ELSE LET h == tools[name].Handler
                r == RunHandler(h, parameters)
                ctx == WithTimeout(NoDeadline, elapsed, CallTimeout)
            IN  /\ invoked' = <<Invocation(1, name, h, parameters, ctx, r)>>
                /\ deadline' = ctx
                /\ IF r.err
                   THEN /\ reply' = HandlerFailed(name, r.msg)
                        /\ pc' = "done"
                        /\ pending' = NoCall
                        /\ calls' = <<>>
                        /\ UNCHANGED callDeadline
                   ELSE /\ reply' = ZeroResponse
                        /\ pc' = "blocked"
                        /\ pending' = r.call
                        /\ callDeadline' = CallCtx(h, ctx, elapsed)
                        /\ calls' = <<[pos |-> 1, op |-> r.call.op, a1 |-> r.call.a1, a2 |-> r.call.a2]>>
    /\ UNCHANGED elapsed
    /\ UNCHANGED srvVars
    /\ UNCHANGED llmVars
    /\ UNCHANGED cliVars

\* the handler that is running returns: invoked records how
Returned(how, errText) ==
    [invoked EXCEPT ![Len(invoked)].ret = how, ![Len(invoked)].err = errText,
                    ![Len(invoked)].retAt = elapsed]

\* the error a failing Docker call returns: the context's once it is done
CallError == IF Expired(elapsed, callDeadline) THEN DeadlineExceeded ELSE DockerError

\* cli.ImagePull returned the stream: PullImage goes on to io.Copy(io.Discard, out)
ImagePullStreams ==
    /\ pc = "blocked"
    /\ pending.op = "ImagePull"
    /\ ~Expired(elapsed, callDeadline)
    /\ pending' = [pending EXCEPT !.op = "ImagePullStream"]
    /\ UNCHANGED <<pc, req, plan, idx, invoked, calls, reply>>
    /\ UNCHANGED timeVars
    /\ UNCHANGED srvVars
    /\ UNCHANGED llmVars
    /\ UNCHANGED cliVars

\* mutant of DockerCallFails: the loop goes on after a handler error
DockerCallFailsContinues ==
    /\ pc = "blocked"
    /\ invoked' = Returned("err", CallError)
    /\ pending' = NoCall
    /\ IF req.method = "ExecutePlan"
       THEN /\ idx' = idx + 1
            /\ pc' = "loop"
            /\ UNCHANGED reply
       ELSE /\ reply' = HandlerFailed(invoked[Len(invoked)].tool, CallError)
            /\ pc' = "done"
            /\ UNCHANGED idx
    /\ UNCHANGED <<req, plan, calls>>
    /\ UNCHANGED timeVars
    /\ UNCHANGED srvVars
    /\ UNCHANGED llmVars
    /\ UNCHANGED cliVars

\* mutant of DockerCallFails: the failed call is tried a second time
DockerCallFailsRetries ==
    /\ pc = "blocked"
    /\ LET last == invoked[Len(invoked)]
           again == Cardinality({k \in 1..Len(invoked) : invoked[k].pos = last.pos}) >= 2
       IN  IF again
           THEN /\ invoked' = Returned("err", CallError)
                /\ reply' = HandlerFailed(last.tool, CallError)
                /\ pc' = "done"
                /\ pending' = NoCall
                /\ UNCHANGED calls
           ELSE /\ invoked' = Append(Returned("err", CallError),
                                     [last EXCEPT !.at = elapsed, !.retAt = elapsed])
                /\ calls' = Append(calls, calls[Len(calls)])
                /\ UNCHANGED <<reply, pc, pending>>
    /\ UNCHANGED <<req, plan, idx>>
    /\ UNCHANGED timeVars
    /\ UNCHANGED srvVars
    /\ UNCHANGED llmVars
    /\ UNCHANGED cliVars

\* mutant of DockerCallFails: the failed action's predecessors are undone
DockerCallFailsRollsBack ==
    /\ pc = "blocked"
    /\ LET name == invoked[Len(invoked)].tool
       IN  /\ invoked' = Returned("err", CallError)
           /\ reply' = HandlerFailed(name, CallError)
    /\ pc' = "done"
    /\ pending' = NoCall
    /\ calls' = calls \o [c \in 1..(Len(calls) - 1) |->
                          [calls[Len(calls) - c] EXCEPT !.op = "Remove"]]
    /\ UNCHANGED <<req, plan, idx>>
    /\ UNCHANGED timeVars
    /\ UNCHANGED srvVars
    /\ UNCHANGED llmVars
    /\ UNCHANGED cliVars

\* mutant of DockerCallFails: the handler swallows the error and waits on
DockerCallFailsWaits ==
    /\ pc = "blocked"
    /\ UNCHANGED vars

\* the Docker call (or the stream read) fails: the handler returns the error, and
\* the method replies with it
DockerCallFails ==
    /\ pc = "blocked"
    /\ LET name == invoked[Len(invoked)].tool
       IN  /\ invoked' = Returned("err", CallError)
           /\ reply' = HandlerFailed(name, CallError)
    /\ pc' = "done"
    /\ pending' = NoCall
    /\ UNCHANGED <<req, plan, idx, calls>>
    /\ UNCHANGED timeVars
    /\ UNCHANGED srvVars
    /\ UNCHANGED llmVars
    /\ UNCHANGED cliVars

\* the Docker call succeeds and the handler returns nil: ExecutePlan goes on with
\* the next action, CallTool replies
DockerCallSucceeds ==
    /\ pc = "blocked"
    /\ pending.op # "ImagePull"
    /\ ~Expired(elapsed, callDeadline)
    /\ invoked' = Returned("ok", "")
    /\ pending' = NoCall
    /\ IF req.method = "ExecutePlan"
       THEN /\ idx' = NextIndex(idx)
            /\ pc' = "loop"
            /\ UNCHANGED reply
       ELSE /\ reply' = SuccessResponse(<<"Tool ", req.tool, " executed successfully">>)
            /\ pc' = "done"
            /\ UNCHANGED idx
    /\ UNCHANGED <<req, plan, calls>>
    /\ UNCHANGED timeVars
    /\ UNCHANGED srvVars
    /\ UNCHANGED llmVars
    /\ UNCHANGED cliVars

\* time passes while the request is in its loop or blocked on Docker
Tick(t) ==
    /\ pc \in {"loop", "blocked"}
    /\ t > elapsed
    /\ elapsed' = t
    /\ UNCHANGED <<pc, req, plan, idx, pending, invoked, calls, reply, deadline, callDeadline>>
    /\ UNCHANGED srvVars
    /\ UNCHANGED llmVars
    /\ UNCHANGED cliVars

\* the method returns nil and net/rpc writes the response: the call's locals are gone
MethodReturns ==
    /\ pc = "done"
    /\ pc' = "idle"
    /\ req' = NoRequest
    /\ plan' = <<>>
    /\ idx' = 0
    /\ pending' = NoCall
    /\ invoked' = <<>>
    /\ calls' = <<>>
    /\ reply' = ZeroResponse
    /\ elapsed' = 0
    /\ deadline' = NoDeadline
    /\ callDeadline' = NoDeadline
    /\ UNCHANGED srvVars
    /\ UNCHANGED llmVars
    /\ UNCHANGED cliVars

\* mutant of CallLLMCall: the registry is emptied while the tool list is built
CallLLMCallDrains ==
    /\ phase = "serving"
    /\ llmpc = "idle"
    /\ \E order \in Orderings(DOMAIN tools) :
          llmTools' = [i \in 1..Len(order) |-> LLMTool(tools[order[i]])]
    /\ llmpc' = "waiting"
    /\ tools' = EmptyRegistry
    /\ UNCHANGED <<llmResp, llmOut>>
    /\ UNCHANGED <<phase, regpc, lastReg>>
    /\ UNCHANGED reqVars
    /\ UNCHANGED cliVars

\* net/rpc calls Server.CallLLM(args, reply): the tool list is built from s.tools,
\* in the order the range over the map yields, and handed to GeneratePlan
CallLLMCall ==
    /\ phase = "serving"
    /\ llmpc = "idle"
    /\ \E order \in Orderings(DOMAIN tools) :
          llmTools' = [i \in 1..Len(order) |-> LLMTool(tools[order[i]])]
    /\ llmpc' = "waiting"
    /\ UNCHANGED <<llmResp, llmOut>>
    /\ UNCHANGED srvVars
    /\ UNCHANGED reqVars
    /\ UNCHANGED cliVars

\* GeneratePlan returns resp, and CallLLM runs to its return statement
GeneratePlanReturns(resp) ==
    /\ llmpc = "waiting"
    /\ llmResp' = resp
    /\ llmOut' = CallLLM(resp)
    /\ llmTools' = <<>>
    /\ llmpc' = "done"
    /\ UNCHANGED srvVars
    /\ UNCHANGED reqVars
    /\ UNCHANGED cliVars

\* net/rpc writes CallLLM's response: the call's locals are gone
CallLLMReturns ==
    /\ llmpc = "done"
    /\ llmpc' = "idle"
    /\ llmResp' = NoResponse
    /\ llmOut' = NoOutcome
    /\ UNCHANGED llmTools
    /\ UNCHANGED srvVars
    /\ UNCHANGED reqVars
    /\ UNCHANGED cliVars

\* main up to line 30: CallLLM's response is written and read, planJSON printed
\* and checked with json.Valid
ClientGetsPlan ==
    /\ client.pc = "start"
    /\ llmpc = "done"
    /\ LET wire == ServeCodec("1", llmOut.err, WireString(llmOut.reply))
           r == CallAndParse(wire, InEmpty, "*string")
       IN  client' = IF r.err # <<>>
                     THEN ClientFatal(InEmpty, <<"Error calling Server.CallLLM: ">> \o r.err)
                     ELSE IF ~Valid(r.out)
                     THEN ClientFatal(r.out, <<"Invalid JSON received from Server.CallLLM">>)
                     ELSE ClientAt("plan", r.out, <<>>, ZeroResponse, "", <<>>)
    /\ llmpc' = "idle"
    /\ llmResp' = NoResponse
    /\ llmOut' = NoOutcome
    /\ UNCHANGED <<llmTools, other>>
    /\ UNCHANGED srvVars
    /\ UNCHANGED reqVars

\* main line 34: client.CallAndParse(ctx, "Server.ExecutePlan", &execResp, planJSON)
ClientExecutePlan ==
    /\ client.pc = "plan"
    /\ ExecutePlanCall(client.planJSON)

\* main from line 34 on: ExecutePlan's response is written and read, and the
\* result line printed
ClientGetsResult ==
    /\ client.pc = "plan"
    /\ pc = "done"
    /\ LET wire == ServeCodec(req.id, <<>>, WireEnvelope(reply))
           r == CallAndParse(wire, ZeroResponse, "*mcp.RPCResponse")
           result == ResultMap(r.out)
       IN  client' = IF r.err # <<>>
                     THEN ClientFatal(client.planJSON, <<"Error calling Server.ExecutePlan: ">> \o r.err)
                     ELSE ClientAt("printed", client.planJSON, <<>>, r.out,
                                   result.status, result.message)
    /\ pc' = "idle"
    /\ req' = NoRequest
    /\ plan' = <<>>
    /\ idx' = 0
    /\ pending' = NoCall
    /\ invoked' = <<>>
    /\ calls' = <<>>
    /\ reply' = ZeroResponse
    /\ elapsed' = 0
    /\ deadline' = NoDeadline
    /\ callDeadline' = NoDeadline
    /\ UNCHANGED other
    /\ UNCHANGED srvVars
    /\ UNCHANGED llmVars

\* mutant of OtherCtx: the requests share one context, that of the request
\* which made it
OtherCtxShared(now) == deadline - elapsed + now

\* ctx, cancel := context.WithTimeout(context.Background(), 30*time.Second) of the
\* second request
OtherCtx(now) == WithTimeout(NoDeadline, now, CallTimeout)

\* net/rpc calls Server.CallTool(args, reply) for the second request
OtherCallTool(name, parameters) ==
    /\ phase = "serving"
    /\ other.pc = "idle"
    /\ IF ~Exists(tools, name)
       THEN other' = [OtherAt("done", name, parameters) EXCEPT !.reply = UnknownToolReply(name)]
       ELSE LET h == tools[name].Handler
                r == RunHandler(h, parameters)
                ctx == OtherCtx(other.elapsed)
            IN  other' = IF r.err
                         THEN [OtherAt("done", name, parameters) EXCEPT
                                 !.invocations = 1, !.ret = "err", !.err = r.msg,
                                 !.deadline = ctx, !.reply = HandlerFailed(name, r.msg)]
                         ELSE [OtherAt("blocked", name, parameters) EXCEPT
                                 !.invocations = 1, !.ret = "running", !.deadline = ctx,
                                 !.pending = r.call,
                                 !.callDeadline = CallCtx(h, ctx, other.elapsed)]
    /\ UNCHANGED client
    /\ UNCHANGED srvVars
    /\ UNCHANGED reqVars
    /\ UNCHANGED llmVars

\* the error a failing Docker call of the second request returns
OtherCallError == IF Expired(other.elapsed, other.callDeadline) THEN DeadlineExceeded ELSE DockerError

\* mutant of OtherDockerCallFails: the response is a field the requests share
OtherDockerCallFailsShared ==
    /\ other.pc = "blocked"
    /\ other' = [other EXCEPT !.pc = "done", !.ret = "err", !.err = OtherCallError,
                               !.retAt = other.elapsed, !.pending = NoCall,
                               !.reply = HandlerFailed(other.tool, OtherCallError)]
    /\ reply' = HandlerFailed(other.tool, OtherCallError)
    /\ UNCHANGED <<pc, req, plan, idx, pending, invoked, calls>>
    /\ UNCHANGED timeVars
    /\ UNCHANGED client
    /\ UNCHANGED srvVars
    /\ UNCHANGED llmVars

\* the second request's Docker call fails: its handler returns the error, and
\* CallTool replies with it
OtherDockerCallFails ==
    /\ other.pc = "blocked"
    /\ other' = [other EXCEPT !.pc = "done", !.ret = "err", !.err = OtherCallError,
                               !.retAt = other.elapsed, !.pending = NoCall,
                               !.reply = HandlerFailed(other.tool, OtherCallError)]
    /\ UNCHANGED client
    /\ UNCHANGED srvVars
    /\ UNCHANGED reqVars
    /\ UNCHANGED llmVars

\* the second request's Docker call succeeds: CallTool replies with the result
OtherDockerCallSucceeds ==
    /\ other.pc = "blocked"
    /\ ~Expired(other.elapsed, other.callDeadline)
    /\ other' = [other EXCEPT !.pc = "done", !.ret = "ok", !.retAt = other.elapsed,
                               !.pending = NoCall,
                               !.reply = SuccessResponse(<<"Tool ", other.tool, " executed successfully">>)]
    /\ UNCHANGED client
    /\ UNCHANGED srvVars
    /\ UNCHANGED reqVars
    /\ UNCHANGED llmVars

\* the second request's CallTool returns nil: its locals are gone
OtherMethodReturns ==
    /\ other.pc = "done"
    /\ other' = OtherIdle
    /\ UNCHANGED client
    /\ UNCHANGED srvVars
    /\ UNCHANGED reqVars
    /\ UNCHANGED llmVars

\* time passes in steps of ten seconds; the clock of a request that runs for long
\* stops at 40, with every deadline of the requests behind it
Steps == {10}
Later(now, d) == IF now + d < 40 THEN now + d ELSE 40

\* time passes, for every request that is in flight
TimePasses(d) ==
    /\ pc \in {"loop", "blocked"} \/ other.pc = "blocked"
    /\ elapsed' = IF pc \in {"loop", "blocked"} THEN Later(elapsed, d) ELSE elapsed
    /\ other' = [other EXCEPT !.elapsed = IF other.pc = "blocked" THEN Later(@, d) ELSE @]
    /\ elapsed' # elapsed \/ other' # other
    /\ UNCHANGED <<pc, req, plan, idx, pending, invoked, calls, reply, deadline, callDeadline>>
    /\ UNCHANGED client
    /\ UNCHANGED srvVars
    /\ UNCHANGED llmVars

\* the tool names CallTool is tried with
CallToolNames == {t.name : t \in {BuiltinTools[i] : i \in 1..Len(BuiltinTools)}} \cup {"", UnregisteredName}

Serve ==
    \/ \E input \in PlanInputs : ExecutePlanCall(input)
    \/ ExecutePlanDispatch
    \/ ExecutePlanSuccess
    \/ \E name \in CallToolNames, parameters \in Bags : CallToolCall(name, parameters)
    \/ ImagePullStreams
    \/ DockerCallFails
    \/ DockerCallSucceeds
    \/ MethodReturns

Next ==
    \/ NewServerFails
    \/ NewServerAllocates
    \/ NewServerRegisters
    \/ StartRPCServer
    \/ Serve

Spec == Init /\ [][Next]_vars

----------------------------------------------------------------------------
(* The registry as a library: RegisterTool is an exported method, so any    *)
(* caller may register any tools, any number of times, before and between   *)
(* requests.  SpecRegistry replaces NewServer's five calls by arbitrary     *)
(* ones.                                                                    *)

RegNames == {"create_network", "create_volume"}
RegDescriptions == {"Create a Docker network", "Create a Docker volume"}
RegSchemas == {Schema({"name"}, {"name"}), Schema({"name"}, {})}
RegHandlers == {"CreateNetwork", "CreateVolume"}

\* some caller's s.RegisterTool(name, description, inputSchema, handler)
RegisterToolCall(name, description, inputSchema, handler) ==
    /\ phase \in {"registering", "serving"}
    /\ pc = "idle"
    /\ regpc < MaxRegistrations
    /\ DoRegisterTool(name, description, inputSchema, handler)
    /\ regpc' = regpc + 1
    /\ UNCHANGED phase
    /\ UNCHANGED reqVars
    /\ UNCHANGED llmVars
    /\ UNCHANGED cliVars

\* the caller starts serving with whatever is registered
ServingBegins ==
    /\ phase = "registering"
    /\ phase' = "serving"
    /\ UNCHANGED <<regpc, tools, lastReg>>
    /\ UNCHANGED reqVars
    /\ UNCHANGED llmVars
    /\ UNCHANGED cliVars

RegPlanElems == {Act(n, Bag(JStr("redis"), JAbsent, JAbsent)) : n \in RegNames}
RegPlanInputs == {InArray(e) : e \in SeqsUpTo(RegPlanElems, MaxPlanLen)}
RegBags == {NilBag, Bag(JStr("redis"), JAbsent, JAbsent)}

NextRegistry ==
    \/ NewServerAllocates
    \/ \E name \in RegNames, description \in RegDescriptions,
          inputSchema \in RegSchemas, handler \in RegHandlers :
            RegisterToolCall(name, description, inputSchema, handler)
    \/ ServingBegins
    \/ \E input \in RegPlanInputs : ExecutePlanCall(input)
    \/ ExecutePlanDispatch
    \/ ExecutePlanSuccess
    \/ \E name \in RegNames, parameters \in RegBags : CallToolCall(name, parameters)
    \/ DockerCallFails
    \/ DockerCallSucceeds
    \/ MethodReturns

SpecRegistry == Init /\ [][NextRegistry]_vars

----------------------------------------------------------------------------
(* Plans from the language model: the same server, with a CallLLM request   *)
(* in flight beside an ExecutePlan or CallTool request.                     *)

LLMPlanElems ==
    { Act("create_network", Bag(JStr("net"), JAbsent, JAbsent)),
      Act(UnregisteredName, NilBag) }
LLMPlanInputs == {InArray(e) : e \in SeqsUpTo(LLMPlanElems, MaxPlanLen)}
LLMToolNames == {"create_volume", UnregisteredName}
LLMBags == {Bag(JStr("vol"), JAbsent, JAbsent)}

NextLLM ==
    \/ NewServerAllocates
    \/ NewServerRegisters
    \/ StartRPCServer
    \/ \E input \in LLMPlanInputs : ExecutePlanCall(input)
    \/ ExecutePlanDispatch
    \/ ExecutePlanSuccess
    \/ \E name \in LLMToolNames, parameters \in LLMBags : CallToolCall(name, parameters)
    \/ DockerCallFails
    \/ DockerCallSucceeds
    \/ MethodReturns
    \/ CallLLMCall
    \/ \E resp \in LLMResponses : GeneratePlanReturns(resp)
    \/ CallLLMReturns

SpecLLM == Init /\ [][NextLLM]_vars

----------------------------------------------------------------------------
(* Requests that take time: the same server and methods, with time passing  *)
(* while a request is in its loop or blocked on Docker.                     *)

TimedPlanElems ==
    { Act("create_network", Bag(JStr("net"), JAbsent, JAbsent)),
      Act("pull_image", Bag(JStr("redis"), JAbsent, JAbsent)),
      Act("create_container", Bag(JStr("web"), JAbsent, JAbsent)),
      Act(UnregisteredName, NilBag),
      Obj(JAbsent, "absent", NilBag) }
TimedPlanInputs == {InArray(e) : e \in SeqsUpTo(TimedPlanElems, MaxPlanLen)}
TimedToolNames == {"pull_image", "create_volume"}
TimedBags == {Bag(JStr("redis"), JAbsent, JAbsent)}

NextTimed ==
    \/ NewServerAllocates
    \/ NewServerRegisters
    \/ StartRPCServer
    \/ \E input \in TimedPlanInputs : ExecutePlanCall(input)
    \/ ExecutePlanDispatch
    \/ ExecutePlanSuccess
    \/ \E name \in TimedToolNames, parameters \in TimedBags : CallToolCall(name, parameters)
    \/ \E t \in Instants : Tick(t)
    \/ ImagePullStreams
    \/ DockerCallFails
    \/ DockerCallSucceeds
    \/ MethodReturns

SpecTimed == Init /\ [][NextTimed]_vars

----------------------------------------------------------------------------
(* Action entries of every shape: the same server and methods, with plans   *)
(* whose entries lack a usable name, name no registered tool, have no       *)
(* "parameters", have other keys, or have optional parameters.              *)

\* names that differ from a registered one by case, and that are a prefix of one
CaseVariantName == "Create_Network"
PrefixName == "create"

ShapePlanElems ==
    { Act("create_network", Bag(JStr("net"), JAbsent, JAbsent)),
      Obj(JAbsent, "obj", Bag(JStr("net"), JAbsent, JAbsent)),
      Obj(JNum, "absent", NilBag),
      Obj(JStr(""), "obj", Bag(JStr("net"), JAbsent, JAbsent)),
      Act(CaseVariantName, Bag(JStr("net"), JAbsent, JAbsent)),
      Act(PrefixName, Bag(JStr("net"), JAbsent, JAbsent)),
      ObjTop(JStr("create_network"), "absent", NilBag, Bag(JStr("net"), JAbsent, JAbsent)),
      ObjTop(JStr("create_volume"), "obj", Bag(JStr("vol"), JAbsent, JAbsent),
             Bag(JStr("other"), JStr("nginx:latest"), JAbsent)),
      Act("create_container",
          BagWith(JStr("web"), JStr("nginx:latest"), JAbsent, JList("mixed"), JAbsent, JAbsent)) }
ShapePlanInputs == {InArray(e) : e \in SeqsUpTo(ShapePlanElems, MaxPlanLen)}
ShapeToolNames == {"create_container"}
ShapeBags ==
    { BagWith(JStr("web"), JStr("nginx:latest"), JAbsent, vols, nets, env) :
        vols \in {JAbsent, JList("strings")},
        nets \in {JAbsent, JList("mixed")},
        env \in {JAbsent, JMap("mixed")} }

NextShapes ==
    \/ NewServerAllocates
    \/ NewServerRegisters
    \/ StartRPCServer
    \/ \E input \in ShapePlanInputs : ExecutePlanCall(input)
    \/ ExecutePlanDispatch
    \/ ExecutePlanSuccess
    \/ \E name \in ShapeToolNames, parameters \in ShapeBags : CallToolCall(name, parameters)
    \/ DockerCallFails
    \/ DockerCallSucceeds
    \/ MethodReturns

SpecShapes == Init /\ [][NextShapes]_vars

----------------------------------------------------------------------------
(* Properties *)

\* the request in flight has written its reply
Done == pc = "done"
PlanDone == pc = "done" /\ req.method = "ExecutePlan"
ToolDone == pc = "done" /\ req.method = "CallTool"

\* the submitted array and, for an element that is an object, its name and bag
Elems == req.input.elems
IsNamed(e) == e.kind = "obj" /\ e.action.t = "str"
BagOf(e) == IF e.kind = "obj" /\ e.ptype = "obj" THEN e.params ELSE NilBag
NonEmptyString(v) == v.t = "str" /\ v.s # ""

\* the i-th invocation is that of the i-th submitted action, with its parameters
InvocationMatches(i) ==
    /\ invoked[i].pos = i
    /\ IsNamed(Elems[i])
    /\ invoked[i].tool = Elems[i].action.s
    /\ invoked[i].tool \in DOMAIN tools
    /\ invoked[i].handler = tools[invoked[i].tool].Handler
    /\ invoked[i].params = BagOf(Elems[i])

\* C1: a plan of N >= 1 actions whose names are all registered and whose handlers
\* all succeed has, when ExecutePlan replies, exactly N invocations, the i-th being
\* the handler of the i-th action with that action's parameters, and the reply
\* carries a result and no error.
C1_SuccessInOrder ==
    ( /\ PlanDone
      /\ req.input.kind = "array"
      /\ Len(Elems) >= 1
      /\ \A i \in 1..Len(Elems) :
            IsNamed(Elems[i]) /\ Elems[i].action.s # "" /\ Elems[i].action.s \in DOMAIN tools
      /\ \A j \in 1..Len(invoked) : invoked[j].ret # "err" )
    => /\ Len(invoked) = Len(Elems)
       /\ \A i \in 1..Len(invoked) : InvocationMatches(i) /\ invoked[i].ret = "ok"
       /\ reply.Result.present
       /\ ~reply.Error.present

\* a three-action plan (one name twice) has run to success
C1_Witness ==
    /\ PlanDone
    /\ Len(Elems) = 3
    /\ Len(invoked) = 3
    /\ invoked[1].tool = "create_network"
    /\ invoked[2].tool = "create_container"
    /\ invoked[3].tool = "create_network"
    /\ reply.Result.present

\* C2: when the handler of action k fails, the handlers of actions 1..k-1 have been
\* invoked once each, in order, and have succeeded, no handler of a later action is
\* invoked, and the reply is an error whose message contains action k's tool name.
C2_FailFast ==
    \A k \in 1..Len(invoked) :
        (PlanDone /\ invoked[k].ret = "err")
        => /\ Len(invoked) = k
           /\ \A i \in 1..k : InvocationMatches(i)
           /\ \A i \in 1..(k - 1) : invoked[i].ret = "ok"
           /\ reply.Error.present
           /\ ~reply.Result.present
           /\ Contains(reply.Error.Message, Elems[k].action.s)

\* the Docker call of the second of three actions has failed
C2_Witness ==
    /\ PlanDone
    /\ Len(Elems) = 3
    /\ Len(invoked) = 2
    /\ invoked[1].ret = "ok"
    /\ invoked[2].ret = "err"
    /\ invoked[2].err = DockerError

\* C3: ExecutePlan("") and ExecutePlan of a plan that decodes to zero actions reply
\* with an error of the invalid-params or parse-error class, never with a result,
\* and invoke no handler and no Docker call.
C3_EmptyPlanIsError ==
    ( /\ PlanDone
      /\ \/ req.input.kind \in {"empty", "null"}
         \/ req.input.kind = "array" /\ Len(Elems) = 0 )
    => /\ reply.Error.present
       /\ ~reply.Result.present
       /\ reply.Error.Code \in {-32602, -32700}
       /\ invoked = <<>>
       /\ calls = <<>>

\* ExecutePlan("[]") has replied
C3_Witness == PlanDone /\ req.input = InArray(<<>>) /\ reply.Error.present

C5_LastRegistrationWins ==
    /\ DOMAIN tools = DOMAIN lastReg
    /\ \A n \in DOMAIN lastReg :
          tools[n] = [Name |-> n, Description |-> lastReg[n].description,
                      InputSchema |-> lastReg[n].inputSchema, Handler |-> lastReg[n].handler]
    /\ \A i \in 1..Len(invoked) :
          /\ invoked[i].tool \in DOMAIN lastReg
          /\ invoked[i].handler = lastReg[invoked[i].tool].handler

\* create_network alone was registered, twice, and the handler invoked under that
\* name is the second registration's
C5_Witness ==
    /\ regpc = 2
    /\ DOMAIN tools = {"create_network"}
    /\ tools["create_network"].Handler = "CreateVolume"
    /\ Len(invoked) = 1
    /\ invoked[1].tool = "create_network"
    /\ invoked[1].handler = "CreateVolume"

\* the action ExecutePlan stopped at when it replied without invoking its handler
HaltedAt(name) ==
    /\ PlanDone
    /\ idx \in 1..Len(Elems)
    /\ \A j \in 1..Len(invoked) : invoked[j].pos # idx
    /\ IsNamed(Elems[idx])
    /\ Elems[idx].action.s = name

UnknownShape == reply.Error.present /\ ~reply.Result.present /\ reply.Error.Code = -32601

\* C6 as claimed: CallTool with a name that is not in the registry, and ExecutePlan
\* at an action with a name that is not in the registry, reply with the same code
\* (-32601) and shape (error, no result); CallTool invokes no handler.
C6_Original ==
    /\ (ToolDone /\ req.tool \notin DOMAIN tools) => (UnknownShape /\ invoked = <<>>)
    /\ \A name \in CallToolNames \ DOMAIN tools : HaltedAt(name) => UnknownShape

\* C6 as amended: the same, for ExecutePlan only at a non-empty name.
C6_UnknownToolSameCode ==
    /\ (ToolDone /\ req.tool \notin DOMAIN tools) => (UnknownShape /\ invoked = <<>> /\ calls = <<>>)
    /\ \A name \in CallToolNames \ DOMAIN tools :
          (name # "" /\ HaltedAt(name)) => UnknownShape

\* CallTool has answered for the name ExecutePlan knows as unregistered
C6_Witness == ToolDone /\ req.tool = UnregisteredName /\ reply.Error.Code = -32601

\* a parameter the handler requires is missing, empty or not a string
RequiredMissing(h, p) ==
    CASE h = "CreateNetwork" -> ~NonEmptyString(p.name)
      [] h = "CreateContainer" -> ~NonEmptyString(p.name) \/ ~NonEmptyString(p.image)
      [] h = "CreateVolume" -> ~NonEmptyString(p.name)
      [] h = "RunContainer" -> ~NonEmptyString(p.name)
      [] h = "PullImage" -> ~NonEmptyString(p.image) /\ ~NonEmptyString(p.name)

\* C7: a handler invoked with a required parameter missing, empty or not a string
\* fails with its validation error, and no Docker call is issued for that action.
C7_ValidationBeforeDocker ==
    \A i \in 1..Len(invoked) :
        RequiredMissing(invoked[i].handler, invoked[i].params)
        => /\ invoked[i].ret = "err"
           /\ invoked[i].err \in ValidationMessages
           /\ \A j \in 1..Len(calls) : calls[j].pos # invoked[i].pos
           /\ pc = "done"
           /\ reply.Error.present

\* create_container with a name and no image has failed without a Docker call
C7_Witness ==
    /\ PlanDone
    /\ Elems = <<Act("create_container", Bag(JStr("redis"), JAbsent, JAbsent))>>
    /\ Len(invoked) = 1
    /\ invoked[1].ret = "err"
    /\ calls = <<>>

\* the reference the claim gives for a bag with a usable image or name
ClaimedRef(p) ==
    IF NonEmptyString(p.image) THEN p.image.s
    ELSE p.name.s \o ":" \o (IF NonEmptyString(p.tag) THEN p.tag.s ELSE "latest")

\* C8: pull_image passes to ImagePull the `image` parameter when it is a non-empty
\* string, otherwise name:tag when both are non-empty strings, otherwise
\* name:latest; {"name":"redis"} gives redis:latest.
C8_PullImageReference ==
    \A i \in 1..Len(invoked) :
        (invoked[i].handler = "PullImage" /\ ~RequiredMissing("PullImage", invoked[i].params))
        => \E j \in 1..Len(calls) :
              /\ calls[j].pos = invoked[i].pos
              /\ calls[j].op = "ImagePull"
              /\ calls[j].a1 = ClaimedRef(invoked[i].params)
              /\ (invoked[i].params = Bag(JStr("redis"), JAbsent, JAbsent)
                    => calls[j].a1 = "redis:latest")

\* pull_image {"name":"redis","tag":""} has asked Docker for redis:latest
C8_Witness ==
    /\ Len(invoked) = 1
    /\ invoked[1].handler = "PullImage"
    /\ invoked[1].params = Bag(JStr("redis"), JAbsent, JStr(""))
    /\ Len(calls) = 1
    /\ calls[1].a1 = "redis:latest"

\* C9: every reply of ExecutePlan and CallTool has exactly one of result and error.
C9_ExactlyOneOfResultError == Done => (reply.Result.present # reply.Error.present)

\* ExecutePlan has stopped at an action without a name after running one action
C9_Witness ==
    /\ PlanDone
    /\ Len(invoked) = 1
    /\ idx = 2
    /\ reply.Error.present
    /\ reply.Error.Code = -32602

\* C10 as claimed: a handler's parameter validation failure is reported with
\* -32602, a failure of the Docker call with -32000.
C10_Original ==
    (Done /\ invoked # <<>> /\ invoked[Len(invoked)].ret = "err")
    => reply.Error.Code =
          (IF invoked[Len(invoked)].err \in ValidationMessages THEN -32602 ELSE -32000)

\* the codes the engine reports
RecognizedCodes == {-32700, -32601, -32602, -32000}

\* C11: every failure of ExecutePlan and CallTool is reported in the reply: the
\* method returns (nil) with an error whose code is one of -32700, -32601, -32602,
\* -32000 and whose message is not empty, the process keeps serving, and the next
\* request can be made.
C11_FailuresInEnvelope ==
    /\ (Done /\ ~reply.Result.present)
        => /\ reply.Error.present
           /\ reply.Error.Code \in RecognizedCodes
           /\ reply.Error.Message # <<>>
           /\ reply.Error.Message[1] # ""
    /\ Done => (phase = "serving" /\ ENABLED MethodReturns)
    /\ (phase = "serving" /\ pc = "idle") => ENABLED CallToolCall(UnregisteredName, NilBag)

\* a plan has failed at an unknown action after one action was executed
C11_Witness ==
    /\ PlanDone
    /\ Len(invoked) = 1
    /\ invoked[1].ret = "ok"
    /\ reply.Error.present
    /\ reply.Error.Code = -32601
    /\ phase = "serving"

\* C12: within one ExecutePlan call every handler is passed the one context made
\* before the loop, whose deadline is 30 s after the start; the deadline is the
\* same for every action, so action k has 30 s minus the time already used.
C12_SingleSharedDeadline ==
    (req.method = "ExecutePlan" /\ pc \in {"loop", "blocked", "done"})
    => /\ pc \in {"loop", "blocked"} => deadline = 30
       /\ \A k \in 1..Len(invoked) :
            /\ invoked[k].ctx = 30
            /\ invoked[k].ctx - invoked[k].at = 30 - invoked[k].at
            /\ \A j \in 1..k : invoked[j].ctx = invoked[k].ctx /\ invoked[j].at <= invoked[k].at

\* the second action of a plan starts 20 s in, under the deadline of the first
C12_Witness ==
    /\ req.method = "ExecutePlan"
    /\ Len(invoked) = 2
    /\ invoked[1].at = 0
    /\ invoked[1].ret = "ok"
    /\ invoked[2].at = 20
    /\ invoked[2].ctx = 30

\* C13 (as stated): a pull_image handler blocked on its pull runs under a deadline
\* of 2 minutes from its start, later than the request's 30 s deadline, so a pull
\* still in progress at 30 s can go on.
C13_Original ==
    \A k \in 1..Len(invoked) :
        (pc = "blocked" /\ k = Len(invoked) /\ invoked[k].handler = "PullImage")
        => /\ callDeadline = invoked[k].at + 120
           /\ callDeadline > invoked[k].ctx
           /\ (elapsed >= 30 /\ elapsed < 120) => ~Expired(elapsed, callDeadline)

\* the invocation at position k was blocked on Docker when its request's deadline
\* elapsed
BlockedAtDeadline(k) ==
    /\ invoked[k].at < invoked[k].ctx
    /\ \E c \in 1..Len(calls) : calls[c].pos = invoked[k].pos
    /\ \/ invoked[k].ret = "running" /\ elapsed >= invoked[k].ctx
       \/ invoked[k].ret # "running" /\ invoked[k].retAt >= invoked[k].ctx

\* C14: an invocation of action k that is blocked on Docker when the plan's deadline
\* elapses never succeeds; when ExecutePlan replies, that invocation has failed, the
\* reply is an error naming action k's tool, k is the last invocation, and action k
\* was invoked and its Docker call issued once only.
C14_DeadlineHaltsPlan ==
    \A k \in 1..Len(invoked) :
        (req.method = "ExecutePlan" /\ BlockedAtDeadline(k))
        => /\ invoked[k].ret # "ok"
           /\ k = Len(invoked)
           /\ pc \in {"blocked", "done"}
           /\ pc = "done"
                => /\ invoked[k].ret = "err"
                   /\ invoked[k].err = DeadlineExceeded
                   /\ reply.Error.present
                   /\ ~reply.Result.present
                   /\ Contains(reply.Error.Message, invoked[k].tool)
                   /\ Cardinality({j \in 1..Len(invoked) : invoked[j].pos = invoked[k].pos}) = 1
                   /\ Cardinality({c \in 1..Len(calls) : calls[c].pos = invoked[k].pos}) = 1

\* the second action of a three-action plan was blocked when 30 s had passed; the
\* plan has halted there
C14_Witness ==
    /\ PlanDone
    /\ Len(Elems) = 3
    /\ Len(invoked) = 2
    /\ invoked[1].ret = "ok"
    /\ invoked[2].at = 10
    /\ invoked[2].retAt = 30
    /\ invoked[2].ret = "err"
    /\ reply.Error.present

\* C15 (as stated): run_container asks Docker for the container's state before it
\* starts it: every ContainerStart call follows a ContainerInspect call of the same
\* action, and a run_container that succeeded has made that query.
C15_Original ==
    /\ \A c \in 1..Len(calls) :
          calls[c].op = "ContainerStart"
          => /\ c > 1
             /\ calls[c - 1].op = "ContainerInspect"
             /\ calls[c - 1].pos = calls[c].pos
    /\ \A k \in 1..Len(invoked) :
          (invoked[k].handler = "RunContainer" /\ invoked[k].ret = "ok")
          => \E c \in 1..Len(calls) :
                calls[c].pos = invoked[k].pos /\ calls[c].op = "ContainerInspect"

\* an optional parameter of create_container that is not what the interface asks
\* for: a list with an element that is not a string, a map with a value that is not
\* a string, or a value of another type
Malformed(p) ==
    \/ p.volumes \notin {JAbsent, JList("strings")}
    \/ p.networks \notin {JAbsent, JList("strings")}
    \/ p.environment \notin {JAbsent, JMap("strings")}

\* C16 (as stated): a create_container whose volumes or networks has an element
\* that is not a string, or whose environment is not a string-to-string map, fails
\* with a validation error, and no ContainerCreate call is issued for it.
C16_Original ==
    \A k \in 1..Len(invoked) :
        (invoked[k].handler = "CreateContainer" /\ Malformed(invoked[k].params))
        => /\ invoked[k].ret \in {"err"}
           /\ invoked[k].err \notin {DockerError, DeadlineExceeded}
           /\ \A c \in 1..Len(calls) : calls[c].pos # invoked[k].pos

\* an array element ExecutePlan can take a usable action name from, and one whose
\* name is a key of the registry
Usable(e) == IsNamed(e) /\ e.action.s # ""
Registered(e) == Usable(e) /\ e.action.s \in DOMAIN tools

\* ExecutePlan has replied to an array of objects and nulls, and its loop came to
\* position k: every earlier entry has a registered name and its handler did not
\* fail
CameTo(k) ==
    /\ PlanDone
    /\ req.input.kind = "array"
    /\ k \in 1..Len(Elems)
    /\ \A i \in 1..Len(Elems) : Elems[i].kind # "num"
    /\ \A i \in 1..(k - 1) : Registered(Elems[i]) /\ (i <= Len(invoked) => invoked[i].ret # "err")

\* actions 1..k-1 were executed, in order, and nothing at k or after was
ExecutedBefore(k) ==
    /\ Len(invoked) = k - 1
    /\ \A i \in 1..(k - 1) : InvocationMatches(i) /\ invoked[i].ret = "ok"
    /\ \A c \in 1..Len(calls) : calls[c].pos < k

\* C17: an action entry without "parameters" is dispatched to the handler of its
\* name with the nil bag, and the handler's validation decides (a -32000 reply, not
\* a shape error); whatever other keys an entry has, the handler invoked is the one
\* registered under its "action" and the bag is its "parameters" object.
C17_AbsentParametersEmptyBag ==
    /\ \A k \in 1..Len(invoked) :
          req.method = "ExecutePlan"
          => LET e == Elems[invoked[k].pos]
             IN  /\ invoked[k].tool = e.action.s
                 /\ invoked[k].handler = tools[e.action.s].Handler
                 /\ invoked[k].params = (IF e.ptype = "obj" THEN e.params ELSE NilBag)
                 /\ e.ptype = "absent"
                      => /\ invoked[k].params = NilBag
                         /\ invoked[k].ret = "err"
                         /\ invoked[k].err \in ValidationMessages
    /\ \A k \in 1..Len(Elems) :
          (CameTo(k) /\ Registered(Elems[k]) /\ Elems[k].ptype = "absent")
          => /\ Len(invoked) = k
             /\ invoked[k].pos = k
             /\ reply.Error.present
             /\ reply.Error.Code = -32000
             /\ Contains(reply.Error.Message, "failed to execute tool ")

\* {"action":"create_network","name":"net"} was dispatched with the nil bag and
\* create_network's validation has failed it
C17_Witness ==
    /\ PlanDone
    /\ Len(Elems) >= 1
    /\ Elems[1].ptype = "absent"
    /\ Elems[1].top # NilBag
    /\ Len(invoked) = 1
    /\ invoked[1].handler = "CreateNetwork"
    /\ invoked[1].params = NilBag
    /\ reply.Error.Code = -32000

\* C18: when the loop comes to a position k whose "action" is missing, empty or not
\* a string, the reply is the error -32602 "invalid action format", actions 1..k-1
\* have been executed, and no handler is invoked for k or any later position.
C18_InvalidNameHalts ==
    \A k \in 1..Len(Elems) :
        (CameTo(k) /\ ~Usable(Elems[k]))
        => /\ reply = ErrorResponse(-32602, <<"invalid action format">>)
           /\ reply.Error.present /\ ~reply.Result.present
           /\ idx = k
           /\ ExecutedBefore(k)

\* a plan whose second action has a number for a name has halted after the first
C18_Witness ==
    /\ PlanDone
    /\ Len(Elems) = 3
    /\ Elems[2].action = JNum
    /\ Len(invoked) = 1
    /\ invoked[1].ret = "ok"
    /\ reply.Error.Code = -32602

\* C19: when the loop comes to a position k whose name is not a key of the registry
\* (a registered name in another case, a prefix of one), the reply is an error with
\* code -32601 whose message contains the name, actions 1..k-1 have been executed,
\* and no handler is invoked for k or any later position.
C19_UnknownNameHalts ==
    /\ phase = "serving"
         => /\ "create_network" \in DOMAIN tools
            /\ CaseVariantName \notin DOMAIN tools
            /\ PrefixName \notin DOMAIN tools
    /\ \A k \in 1..Len(Elems) :
          (CameTo(k) /\ Usable(Elems[k]) /\ ~Registered(Elems[k]))
          => /\ reply.Error.present /\ ~reply.Result.present
             /\ reply.Error.Code = -32601
             /\ Contains(reply.Error.Message, Elems[k].action.s)
             /\ idx = k
             /\ ExecutedBefore(k)

\* a plan whose third action is named "create" has halted after two actions
C19_Witness ==
    /\ PlanDone
    /\ Len(Elems) = 3
    /\ Elems[3].action = JStr(PrefixName)
    /\ Len(invoked) = 2
    /\ invoked[2].ret = "ok"
    /\ reply.Error.Code = -32601

\* the Docker call the handler of the k-th invocation makes
ForwardCall(k) ==
    LET r == RunHandler(invoked[k].handler, invoked[k].params)
    IN  [pos |-> invoked[k].pos, op |-> r.call.op, a1 |-> r.call.a1, a2 |-> r.call.a2]

\* the invocations that got past their handler's validation
Issuing == {k \in 1..Len(invoked) : ~RunHandler(invoked[k].handler, invoked[k].params).err}

\* C20: when ExecutePlan replies with an error, the calls Docker has received in
\* this request are the calls of the actions that were executed, one each, in plan
\* order, and nothing else: no call undoes what an earlier action did.
C20_NoCompensation ==
    (PlanDone /\ reply.Error.present)
    => /\ Len(calls) = Cardinality(Issuing)
       /\ \A c \in 1..Len(calls) : \E k \in Issuing : calls[c] = ForwardCall(k)
       /\ \A c, d \in 1..Len(calls) : c < d => calls[c].pos < calls[d].pos
       /\ \A c \in 1..Len(calls) :
            calls[c].op \in {"NetworkCreate", "ContainerCreate", "VolumeCreate",
                             "ContainerStart", "ImagePull"}

\* the third action failed in Docker after two actions had created their resources
C20_Witness ==
    /\ PlanDone
    /\ Len(invoked) = 3
    /\ invoked[1].ret = "ok"
    /\ invoked[2].ret = "ok"
    /\ invoked[3].ret = "err"
    /\ invoked[3].err = DockerError
    /\ Len(calls) = 3
    /\ reply.Error.present

\* the invocations and the Docker calls made for plan position p
InvocationsOf(p) == {k \in 1..Len(invoked) : invoked[k].pos = p}
CallsOf(p) == {c \in 1..Len(calls) : calls[c].pos = p}

\* C21: in one ExecutePlan call the handler of each plan position is invoked at
\* most once and makes at most one Docker call, and in one CallTool call the
\* handler is invoked at most once, also when the invocation failed or ran into
\* the deadline.
C21_SingleAttempt ==
    /\ \A p \in 1..MaxPlanLen + 1 :
          /\ Cardinality(InvocationsOf(p)) <= 1
          /\ Cardinality(CallsOf(p)) <= 1
    /\ Len(invoked) <= Len(plan) \/ req.method # "ExecutePlan"
    /\ req.method = "CallTool" => Len(invoked) <= 1 /\ Len(calls) <= 1

\* the second action ran into the deadline and failed; it was invoked once
C21_Witness ==
    /\ PlanDone
    /\ Len(invoked) = 2
    /\ invoked[2].ret = "err"
    /\ invoked[2].err = DeadlineExceeded
    /\ Cardinality(InvocationsOf(2)) = 1
    /\ Cardinality(CallsOf(2)) = 1

\* the registry NewServer's five RegisterTool calls build
StartupRegistry ==
    [n \in {BuiltinTools[i].name : i \in 1..Len(BuiltinTools)} |->
        LET t == CHOOSE t \in {BuiltinTools[i] : i \in 1..Len(BuiltinTools)} : t.name = n
        IN  RegisteredTool(t.name, t.description, t.inputSchema, t.handler)]

\* C22: once the server serves, the registry is what startup registered, and no
\* step of an ExecutePlan, CallTool or CallLLM request, however the requests'
\* steps interleave, changes it.
C22_RegistryFixedWhileServing ==
    /\ [](phase = "serving" => tools = StartupRegistry)
    /\ [][phase = "serving" => (tools' = tools /\ phase' = "serving")]_vars

\* an ExecutePlan request is blocked in its second action while a CallLLM request
\* waits for the model
C22_Witness ==
    /\ phase = "serving"
    /\ req.method = "ExecutePlan"
    /\ pc = "blocked"
    /\ Len(invoked) = 2
    /\ llmpc = "waiting"
    /\ tools = StartupRegistry

\* C23: within one ExecutePlan call at most one handler invocation is in progress;
\* every invocation but the last has returned nil, and returned before the next
\* one started, so the Docker call of action k is over before that of action k+1
\* is issued.
C23_Sequential ==
    req.method = "ExecutePlan"
    => /\ Cardinality({k \in 1..Len(invoked) : invoked[k].ret = "running"}) <= 1
       /\ \A k \in 1..(Len(invoked) - 1) :
            /\ invoked[k].ret = "ok"
            /\ invoked[k].retAt <= invoked[k + 1].at
            /\ invoked[k].pos < invoked[k + 1].pos
       /\ \A c \in 1..(Len(calls) - 1) : calls[c].pos < calls[c + 1].pos
       /\ pc = "blocked" <=> (invoked # <<>> /\ invoked[Len(invoked)].ret = "running")
       /\ pc = "blocked" <=> pending # NoCall

\* the second action started when the first returned at 10 s, the third when the
\* second returned at 20 s
C23_Witness ==
    /\ req.method = "ExecutePlan"
    /\ pc = "blocked"
    /\ Len(invoked) = 3
    /\ invoked[1].retAt = 10
    /\ invoked[2].at = 10
    /\ invoked[2].retAt = 20
    /\ invoked[3].at = 20

\* C24: CallTool with a registered name invokes the handler registered under that
\* name, once, with the given bag and a context of 30 s; it makes that handler's
\* Docker call and no other; it replies with a result when the handler returned
\* nil, and with the error -32000 naming the tool when the handler failed.
C24_CallToolOneHandler ==
    (req.method = "CallTool" /\ req.tool \in DOMAIN tools)
    => /\ Len(invoked) = 1
       /\ invoked[1].tool = req.tool
       /\ invoked[1].handler = StartupRegistry[req.tool].Handler
       /\ invoked[1].params = req.params
       /\ invoked[1].ctx = invoked[1].at + 30
       /\ deadline = invoked[1].ctx
       /\ calls \in {<<>>, <<ForwardCall(1)>>}
       /\ ToolDone
            => /\ invoked[1].ret \in {"ok", "err"}
               /\ invoked[1].ret = "ok"
                    => /\ reply.Result.present
                       /\ reply.Result.status = "success"
                       /\ ~reply.Error.present
               /\ invoked[1].ret = "err"
                    => /\ ~reply.Result.present
                       /\ reply.Error.present
                       /\ reply.Error.Code = -32000
                       /\ Contains(reply.Error.Message, req.tool)

\* CallTool create_container with name and image has succeeded
C24_Witness ==
    /\ ToolDone
    /\ req.tool = "create_container"
    /\ req.params = Bag(JStr("redis"), JStr("nginx:latest"), JStr("7"))
    /\ invoked[1].handler = "CreateContainer"
    /\ invoked[1].ret = "ok"
    /\ reply.Result.present

\* a text that is syntactically valid JSON, and one that decodes into
\* []map[string]interface{}
ValidJSON(text) == text.kind \in {"null", "nonarray", "array"}
Decodes(text) == ~Unmarshal(text).err

C26_ToolListIsRegistry ==
    llmpc = "waiting"
    => /\ Len(llmTools) = Cardinality(DOMAIN tools)
       /\ \A n \in DOMAIN tools :
            /\ Cardinality({i \in 1..Len(llmTools) : llmTools[i].Function.Name = n}) = 1
            /\ \E i \in 1..Len(llmTools) :
                  /\ llmTools[i].Type = "function"
                  /\ llmTools[i].Function.Name = n
                  /\ llmTools[i].Function.Description = tools[n].Description
                  /\ llmTools[i].Function.Parameters = tools[n].InputSchema
       /\ \A i \in 1..Len(llmTools) : llmTools[i].Function.Name \in DOMAIN tools

\* GeneratePlan has been given the five tools, pull_image first and
\* create_network last
C26_Witness ==
    /\ llmpc = "waiting"
    /\ Len(llmTools) = 5
    /\ llmTools[1].Function.Name = "pull_image"
    /\ llmTools[1].Function.Parameters = Schema({"image", "name", "tag"}, {"image"})
    /\ llmTools[5].Function.Name = "create_network"

\* C27: when a handler failed because its Docker call returned an error, the reply's
\* message contains the tool name and the text of Docker's error as it was.
C27_DockerErrorPreserved ==
    \A k \in 1..Len(invoked) :
        (Done /\ invoked[k].ret = "err" /\ CallsOf(invoked[k].pos) # {})
        => /\ invoked[k].err \in {DockerError, DeadlineExceeded}
           /\ reply.Error.present
           /\ Contains(reply.Error.Message, invoked[k].tool)
           /\ Contains(reply.Error.Message, invoked[k].err)
           /\ reply.Error.Message = <<"failed to execute tool ", invoked[k].tool, ": ", invoked[k].err>>

\* the daemon has refused the pull of a CallTool request
C27_Witness ==
    /\ ToolDone
    /\ req.tool = "pull_image"
    /\ invoked[1].ret = "err"
    /\ invoked[1].err = DockerError
    /\ Contains(reply.Error.Message, DockerError)
    /\ Contains(reply.Error.Message, "pull_image")

\* the keys of a parameter bag, and a bag that does not fit an input schema: a
\* required key is absent, a key is present that the schema does not declare, or
\* a declared key is not a string
BagKeys == {"name", "image", "tag", "volumes", "networks", "environment"}
SchemaViolated(schema, p) ==
    \/ \E key \in schema.required : p[key] = JAbsent
    \/ \E key \in BagKeys \ schema.properties : p[key] # JAbsent
    \/ \E key \in schema.properties : p[key] # JAbsent /\ p[key].t # "str"

\* C28: the input schema is not enforced at dispatch.  An action with a registered
\* name that the loop comes to, and a CallTool with a registered name, is handed
\* to the handler whatever its parameters; the invocation fails before Docker
\* exactly when the handler's own required parameter is missing, and otherwise
\* fails only with Docker's error, schema violated or not.
C28_SchemaNotEnforced ==
    /\ \A k \in 1..Len(Elems) :
          (CameTo(k) /\ Registered(Elems[k])) => (Len(invoked) >= k /\ invoked[k].params = BagOf(Elems[k]))
    /\ (ToolDone /\ req.tool \in DOMAIN tools) => (Len(invoked) = 1 /\ invoked[1].params = req.params)
    /\ \A k \in 1..Len(invoked) :
          /\ (invoked[k].ret = "err" /\ CallsOf(invoked[k].pos) = {})
                <=> RequiredMissing(invoked[k].handler, invoked[k].params)
          /\ invoked[k].err \in ValidationMessages \cup {"", DockerError, DeadlineExceeded}
          /\ (SchemaViolated(tools[invoked[k].tool].InputSchema, invoked[k].params)
                /\ ~RequiredMissing(invoked[k].handler, invoked[k].params))
                => CallsOf(invoked[k].pos) # {}

\* pull_image with `name` and without the required `image` has been executed
C28_Witness ==
    /\ PlanDone
    /\ Len(invoked) = 1
    /\ invoked[1].tool = "pull_image"
    /\ invoked[1].params.image = JAbsent
    /\ "image" \in tools["pull_image"].InputSchema.required
    /\ SchemaViolated(tools["pull_image"].InputSchema, invoked[1].params)
    /\ invoked[1].ret = "ok"
    /\ reply.Result.present

\* the success payload {"status":"success","message":"Plan executed successfully"}
FixedConfirmation ==
    [present |-> TRUE, status |-> "success", message |-> <<"Plan executed successfully">>]

\* C29: whenever ExecutePlan replies with a result, the result is the fixed
\* confirmation, whatever the plan was and whatever its handlers did.
C29_FixedConfirmation ==
    (PlanDone /\ reply.Result.present)
    => /\ reply.Result = FixedConfirmation
       /\ reply.Result.message = <<"Plan executed successfully">>
       /\ ~reply.Error.present

\* a one-action plan that pulled an image has the same confirmation as any other
C29_Witness ==
    /\ PlanDone
    /\ Len(Elems) = 1
    /\ Len(invoked) = 1
    /\ Len(calls) = 1
    /\ invoked[1].tool = "pull_image"
    /\ calls[1].a1 = "redis:latest"
    /\ reply.Result = FixedConfirmation

\* C30 (as stated): every reply of ExecutePlan and CallTool carries version "2.0"
\* and the id of the request it answers.
C30_Original ==
    Done => (reply.Version = "2.0" /\ reply.ID = req.id)

\* C31: a request is in progress only while the server serves, and the server serves
\* only with the five built-in tools registered; a failed startup is fatal for
\* good, with nothing registered and no request ever served.
C31_ServeOnlyAfterStartup ==
    /\ []((req # NoRequest \/ pc # "idle" \/ llmpc # "idle")
            => (phase = "serving" /\ regpc = 5 /\ tools = StartupRegistry))
    /\ [](phase = "serving" => tools = StartupRegistry)
    /\ [](phase = "fatal" => (req = NoRequest /\ pc = "idle" /\ tools = EmptyRegistry))
    /\ [][phase = "fatal" => phase' = "fatal"]_vars
    /\ [][phase' = "serving" => (phase = "serving" \/ DOMAIN tools = DOMAIN StartupRegistry)]_vars

\* the first request is being handled, with the five tools registered
C31_Witness ==
    /\ phase = "serving"
    /\ req.method = "ExecutePlan"
    /\ pc = "loop"
    /\ idx = 1
    /\ DOMAIN tools = {"create_network", "create_container", "create_volume",
                       "run_container", "pull_image"}

\* C39: every entry of the registry has as Name the key it is stored under, at
\* every point of startup and after; once NewServer has returned, the keys are the
\* five built-in names.
C39_NameIsKey ==
    /\ \A n \in DOMAIN tools : tools[n].Name = n
    /\ Cardinality(DOMAIN tools) = regpc
    /\ phase = "serving"
         => DOMAIN tools = {"create_network", "create_container", "create_volume",
                            "run_container", "pull_image"}

\* NewServer has made three of its five registrations
C39_Witness ==
    /\ phase = "registering"
    /\ DOMAIN tools = {"create_network", "create_container", "create_volume"}
    /\ tools["create_volume"].Name = "create_volume"

\* the loop of ExecutePlan leaves "loop" for the action at idx after the plan's
\* deadline has passed
LateDispatch ==
    /\ pc = "loop" /\ req.method = "ExecutePlan" /\ idx <= Len(plan)
    /\ Expired(elapsed, deadline)
    /\ pc' # "loop"

\* what the step of a late dispatch must look like
LateDispatchOutcome ==
    LET action == plan[idx]
        actionType == ActionType(action)
    IN  IF InvalidActionFormat(actionType)
        THEN /\ reply' = ErrorResponse(CodeInvalidParams, <<"invalid action format">>)
             /\ invoked' = invoked
        ELSE IF ~Exists(tools, actionType.s)
        THEN /\ reply'.Error.Code = CodeUnknown
             /\ reply'.Error.Message = <<"unknown action: ", actionType.s>>
             /\ invoked' = invoked
        ELSE /\ Len(invoked') = Len(invoked) + 1
             /\ LET inv == invoked'[Len(invoked')]
                    r == RunHandler(tools[actionType.s].Handler, ActionParameters(action))
                IN  /\ inv.tool = actionType.s
                    /\ inv.ctx = deadline
                    /\ Expired(inv.at, inv.ctx)
                    /\ IF r.err
                       THEN /\ pc' = "done"
                            /\ r.msg \in ValidationMessages
                            /\ reply' = HandlerFailed(actionType.s, r.msg)
                            /\ ~Contains(reply'.Error.Message, DeadlineExceeded)
                       ELSE /\ pc' = "blocked"
                            /\ Expired(elapsed', callDeadline')

\* C35: nothing in the loop looks at the deadline.  An action reached after the
\* deadline is still validated, resolved and its handler invoked with the expired
\* context: invalid format, unknown action and parameter validation are reported
\* with their own code and message, and a handler that was invoked, or is still
\* waiting for Docker, once the deadline has passed never returns success.
C35_NoDeadlineCheckBetweenActions ==
    /\ [][LateDispatch => LateDispatchOutcome]_vars
    /\ [](\A k \in 1..Len(invoked) :
            (invoked[k].ret = "ok") => ~Expired(invoked[k].retAt, invoked[k].ctx))

\* a plan whose first action succeeded in time, and whose second action, reached
\* after the 30 s, was rejected for its format
C35_Witness ==
    /\ PlanDone
    /\ Expired(elapsed, deadline)
    /\ Len(invoked) = 1 /\ invoked[1].ret = "ok"
    /\ idx = 2
    /\ reply.Error.present /\ reply.Error.Code = CodeInvalidParams

----------------------------------------------------------------------------
(* Requests that run to their end: the timed requests, where the goroutine   *)
(* of the method keeps running and every Docker call returns.                *)

LivePlanElems ==
    { Act("create_network", Bag(JStr("net"), JAbsent, JAbsent)),
      Act("pull_image", Bag(JStr("redis"), JAbsent, JAbsent)),
      Act(UnregisteredName, NilBag) }
LivePlanInputs == {InArray(e) : e \in SeqsUpTo(LivePlanElems, MaxPlanLen)}
LiveToolNames == {"pull_image", UnregisteredName}
LiveBags == {Bag(JStr("redis"), JAbsent, JAbsent)}

NextLive ==
    \/ NewServerAllocates
    \/ NewServerRegisters
    \/ StartRPCServer
    \/ \E input \in LivePlanInputs : ExecutePlanCall(input)
    \/ ExecutePlanDispatch
    \/ ExecutePlanSuccess
    \/ \E name \in LiveToolNames, parameters \in LiveBags : CallToolCall(name, parameters)
    \/ \E t \in Instants : Tick(t)
    \/ ImagePullStreams
    \/ DockerCallFails
    \/ DockerCallSucceeds
    \/ MethodReturns

\* a Docker call that was made returns: with its result, or with the error of
\* its context once that is done
DockerCallReturns == ImagePullStreams \/ DockerCallFails \/ DockerCallSucceeds

\* the method's goroutine is scheduled, and Docker answers
Fairness ==
    /\ WF_vars(ExecutePlanDispatch)
    /\ WF_vars(ExecutePlanSuccess)
    /\ WF_vars(DockerCallReturns)

SpecLive == Init /\ [][NextLive]_vars /\ Fairness

\* C36: a request that is in its loop or waiting for Docker comes to its end;
\* ExecutePlan has by then invoked at most one handler per action of its plan,
\* each position at most once, and CallTool at most one handler; the reply is
\* written once, on the step that ends the method.
C36_Terminates ==
    /\ (pc \in {"loop", "blocked"}) ~> (pc = "done")
    /\ [](req.method = "ExecutePlan"
            => /\ Len(invoked) <= Len(plan)
               /\ \A j, k \in 1..Len(invoked) : j < k => invoked[j].pos < invoked[k].pos)
    /\ [](req.method = "CallTool" => Len(invoked) <= 1)
    /\ [](pc \in {"loop", "blocked"} => reply = ZeroResponse)
    /\ [][pc = "done" /\ pc' = "done" => reply' = reply]_vars

\* a plan of three actions is waiting for Docker on its third handler
C36_Witness ==
    /\ req.method = "ExecutePlan" /\ pc = "blocked"
    /\ Len(plan) = 3 /\ Len(invoked) = 3
    /\ Expired(elapsed, callDeadline)

----------------------------------------------------------------------------
(* The client program against the server: main asks CallLLM for a plan and   *)
(* hands what it got to ExecutePlan.                                         *)

NextClient ==
    \/ NewServerAllocates
    \/ NewServerRegisters
    \/ StartRPCServer
    \/ client.pc = "start" /\ CallLLMCall
    \/ \E resp \in LLMResponses : GeneratePlanReturns(resp)
    \/ ClientGetsPlan
    \/ ClientExecutePlan
    \/ ExecutePlanDispatch
    \/ ExecutePlanSuccess
    \/ DockerCallFails
    \/ DockerCallSucceeds
    \/ ClientGetsResult

SpecClient == Init /\ [][NextClient]_vars

\* C32 (as stated): when ExecutePlan's envelope carries an error, the client's call
\* returns a non-nil error, so the client ends on log.Fatalf and never prints a
\* plan-execution result for that plan.
C32_Original ==
    client.pc = "printed" => ~client.execResp.Error.present

\* C37: the string CallLLM returns with a nil error, handed unchanged by the
\* client to ExecutePlan, is never answered with a parse error: ExecutePlan either
\* stops on "received empty plan from LLM" or enters its loop over the actions.
C37_LLMOutputDecodes ==
    /\ (llmpc = "done" /\ llmOut.err = <<>>)
         => LET e == ExecutePlanEntry(llmOut.reply)
            IN  e.done => e.reply = ErrorResponse(CodeInvalidParams, <<"received empty plan from LLM">>)
    /\ req.method = "ExecutePlan"
         => /\ req.input = client.planJSON
            /\ ~Unmarshal(req.input).err
            /\ pc = "done" =>
                  /\ ~(reply.Error.present /\ reply.Error.Code = CodeParseError)
                  /\ IF idx = 0
                     THEN reply = ErrorResponse(CodeInvalidParams, <<"received empty plan from LLM">>)
                     ELSE idx \in 1..(Len(plan) + 1) /\ Len(plan) = Len(req.input.elems)

\* the model answered null: CallLLM returned "null", and ExecutePlan, given it,
\* replied that the plan is empty
C37_Witness ==
    /\ PlanDone
    /\ client.pc = "plan"
    /\ client.planJSON.kind = "null"
    /\ req.input = client.planJSON
    /\ reply.Error.present /\ reply.Error.Code = CodeInvalidParams

----------------------------------------------------------------------------
(* The switch-based server (src/server/server.go): its ExecutePlan, as a     *)
(* function of the plan text and of what Docker answers to each call.        *)

\* case "create_network"
SwitchCreateNetwork(parameters) ==
    LET name == AsString(parameters.name).s
    IN  IF name = "" THEN Fail("missing network name")
        ELSE Issue("NetworkCreate", name, "")

\* case "create_container"
SwitchCreateContainer(parameters) ==
    LET name == AsString(parameters.name).s
        image == AsString(parameters.image).s
    IN  IF name = "" \/ image = "" THEN Fail("missing container name or image")
        ELSE Issue("ContainerCreate", image, name)

\* case "create_volume"
SwitchCreateVolume(parameters) ==
    LET name == AsString(parameters.name).s
    IN  IF name = "" THEN Fail("invalid or missing name for create_volume action")
        ELSE Issue("VolumeCreate", name, "")

\* mutant of SwitchRunContainer: the container is inspected before it is started
SwitchRunContainerInspects(parameters) ==
    LET name == AsString(parameters.name).s
    IN  IF name = "" THEN Fail("invalid name for run_container")
        ELSE Issue("ContainerInspect", name, "")

\* case "run_container"
SwitchRunContainer(parameters) ==
    LET name == AsString(parameters.name).s
    IN  IF name = "" THEN Fail("invalid name for run_container")
        ELSE Issue("ContainerStart", name, "")

\* switch actionType { ... default: unknown action }
Switch(actionType, parameters) ==
    CASE actionType = "create_network" -> SwitchCreateNetwork(parameters)
      [] actionType = "create_container" -> SwitchCreateContainer(parameters)
      [] actionType = "create_volume" -> SwitchCreateVolume(parameters)
      [] actionType = "run_container" -> SwitchRunContainer(parameters)
      [] OTHER -> Fail("unknown action")

\* how a run of the switch-based ExecutePlan ended: the Docker calls it issued,
\* whether it returned nil, and the position of the action it returned at (0 when
\* it returned before or after the loop)
SwitchEnded(issued, ok, at) == [calls |-> issued, ok |-> ok, halted |-> at]

\* for _, action := range plan, from position i on; answers[i] is what Docker
\* answers to the call of the action at position i
RECURSIVE SwitchLoop(_, _, _, _)
SwitchLoop(p, i, issued, answers) ==
    IF i > Len(p) THEN SwitchEnded(issued, TRUE, 0)
    ELSE LET action == p[i]
             actionType == AsString(action.action)
             parameters == IF action.ptype = "obj" THEN action.params ELSE NilBag
         IN  IF ~actionType.ok \/ actionType.s = ""
             THEN SwitchEnded(issued, FALSE, i)
             ELSE LET r == Switch(actionType.s, parameters)
                      now == Append(issued, [pos |-> i, op |-> r.call.op,
                                             a1 |-> r.call.a1, a2 |-> r.call.a2])
                  IN  IF r.err THEN SwitchEnded(issued, FALSE, i)
                      ELSE IF answers[i] = "ok" THEN SwitchLoop(p, i + 1, now, answers)
                      ELSE SwitchEnded(now, FALSE, i)

\* func (s *Server) ExecutePlan(args *string, reply *string) error of server.go
SwitchExecutePlan(input, answers) ==
    IF input.kind = "empty" THEN SwitchEnded(<<>>, FALSE, 0)
    ELSE LET u == Unmarshal(input)
         IN  IF u.err \/ Len(u.plan) = 0 THEN SwitchEnded(<<>>, FALSE, 0)
             ELSE SwitchLoop(u.plan, 1, <<>>, answers)

\* plans of the four actions both servers know, with and without the parameters
\* the actions need
SwitchPlanElems ==
    { Act("create_network", Bag(JStr("net"), JAbsent, JAbsent)),
      Act("create_container", Bag(JStr("web"), JStr("nginx:latest"), JAbsent)),
      Act("create_container", Bag(JStr("web"), JAbsent, JAbsent)),
      Act("create_volume", Bag(JStr("vol"), JAbsent, JAbsent)),
      Act("run_container", Bag(JStr("web"), JAbsent, JAbsent)),
      Obj(JStr("run_container"), "nonobj", NilBag) }
SwitchPlanInputs ==
    {InEmpty, InBadSyntax, InNull} \cup {InArray(e) : e \in SeqsUpTo(SwitchPlanElems, MaxPlanLen)}

NextSwitch ==
    \/ NewServerAllocates
    \/ NewServerRegisters
    \/ StartRPCServer
    \/ \E input \in SwitchPlanInputs : ExecutePlanCall(input)
    \/ ExecutePlanDispatch
    \/ ExecutePlanSuccess
    \/ DockerCallFails
    \/ DockerCallSucceeds
    \/ MethodReturns

SpecSwitch == Init /\ [][NextSwitch]_vars

\* the four actions the switch knows
SwitchActions == {"create_network", "create_container", "create_volume", "run_container"}
UsesOnlySwitchActions ==
    \A i \in 1..Len(Elems) :
        Elems[i].kind = "obj" /\ Elems[i].action.t = "str" /\ Elems[i].action.s \in SwitchActions

\* what Docker answered to the call of the action at each position of the
\* request that has ended
Answers ==
    [i \in 1..MaxPlanLen + 1 |->
        IF \E k \in 1..Len(invoked) : invoked[k].pos = i /\ invoked[k].ret = "ok"
        THEN "ok" ELSE "err"]

\* C38: on a plan of the four actions create_network, create_container,
\* create_volume and run_container, the switch-based ExecutePlan, given the same
\* text and the same answers of Docker, issues the Docker calls the registry-based
\* one issued, with the same arguments in the same order, and like it either
\* succeeds or returns at the same action.
C38_SwitchEquivalent ==
    (PlanDone /\ UsesOnlySwitchActions)
        => LET old == SwitchExecutePlan(req.input, Answers)
           IN  /\ old.calls = calls
               /\ old.ok = ~reply.Error.present
               /\ old.ok = reply.Result.present
               /\ old.halted = (IF reply.Error.present THEN idx ELSE 0)

\* a network was created and a volume, and starting the container failed: both
\* servers stop at the third action
C38_Witness ==
    /\ PlanDone /\ UsesOnlySwitchActions
    /\ Len(calls) = 3
    /\ calls[1].op = "NetworkCreate" /\ calls[2].op = "VolumeCreate"
    /\ calls[3].op = "ContainerStart"
    /\ idx = 3 /\ reply.Error.present
    /\ SwitchExecutePlan(req.input, Answers).halted = 3

----------------------------------------------------------------------------
(* Two requests at once: ExecutePlan or CallTool, and beside it a CallTool   *)
(* call on another goroutine, against the same registry and Docker client.   *)

ConcurrentPlanElems ==
    { Act("create_network", Bag(JStr("net"), JAbsent, JAbsent)),
      Act("create_container", Bag(JStr("web"), JAbsent, JAbsent)) }
ConcurrentPlanInputs == {InArray(e) : e \in SeqsUpTo(ConcurrentPlanElems, MaxPlanLen)}
ConcurrentToolNames == {"create_volume", UnregisteredName}
ConcurrentBags == {Bag(JStr("vol"), JAbsent, JAbsent), NilBag}

NextConcurrent ==
    \/ NewServerAllocates
    \/ NewServerRegisters
    \/ StartRPCServer
    \/ \E input \in ConcurrentPlanInputs : ExecutePlanCall(input)
    \/ ExecutePlanDispatch
    \/ ExecutePlanSuccess
    \/ \E name \in ConcurrentToolNames, parameters \in ConcurrentBags : CallToolCall(name, parameters)
    \/ DockerCallFails
    \/ DockerCallSucceeds
    \/ MethodReturns
    \/ \E name \in ConcurrentToolNames, parameters \in ConcurrentBags : OtherCallTool(name, parameters)
    \/ OtherDockerCallFails
    \/ OtherDockerCallSucceeds
    \/ OtherMethodReturns
    \/ \E d \in Steps : TimePasses(d)

SpecConcurrent == Init /\ [][NextConcurrent]_vars

\* the state of the first request, and of the second without its clock
OwnState == <<pc, req, plan, idx, pending, invoked, calls, reply>>
OtherState == [other EXCEPT !.elapsed = 0]

\* what ExecutePlan must reply from position i on, given its plan and what its
\* own handler invocations returned
RECURSIVE ExpectedReply(_, _)
ExpectedReply(p, i) ==
    IF i > Len(p) THEN SuccessResponse(<<"Plan executed successfully">>)
    ELSE LET t == ActionType(p[i])
             own == {k \in 1..Len(invoked) : invoked[k].pos = i}
         IN  IF InvalidActionFormat(t)
             THEN ErrorResponse(CodeInvalidParams, <<"invalid action format">>)
             ELSE IF t.s \notin DOMAIN StartupRegistry THEN UnknownActionReply(t.s)
             ELSE IF \E k \in own : invoked[k].ret = "ok" THEN ExpectedReply(p, i + 1)
             ELSE IF \E k \in own : invoked[k].ret = "err"
             THEN HandlerFailed(t.s, invoked[CHOOSE k \in own : invoked[k].ret = "err"].err)
             ELSE ZeroResponse

\* what ExecutePlan must reply to a plan text
ExpectedPlanReply(input) ==
    LET e == ExecutePlanEntry(input)
    IN  IF e.done THEN e.reply ELSE ExpectedReply(e.plan, 1)

\* what CallTool must reply, given its tool name and what its handler returned
ExpectedToolReply(name, ret, err) ==
    IF name \notin DOMAIN StartupRegistry THEN UnknownToolReply(name)
    ELSE IF ret = "ok" THEN SuccessResponse(<<"Tool ", name, " executed successfully">>)
    ELSE HandlerFailed(name, err)

\* C33: with two requests in flight in any interleaving, the reply of each is
\* the one its own input and the results of its own handler invocations call
\* for, its handlers are invoked for its own actions in plan order, no step of
\* one request changes anything of the other, and the registry they share does
\* not change.
C33_RequestsIndependent ==
    /\ [](PlanDone => /\ reply = ExpectedPlanReply(req.input)
                       /\ \A k \in 1..Len(invoked) : InvocationMatches(k))
    /\ [](ToolDone => reply = ExpectedToolReply(req.tool,
                                 IF Len(invoked) = 1 THEN invoked[1].ret ELSE "none",
                                 IF Len(invoked) = 1 THEN invoked[1].err ELSE ""))
    /\ [](other.pc = "done" => other.reply = ExpectedToolReply(other.tool, other.ret, other.err))
    /\ [][OtherState' # OtherState => OwnState' = OwnState]_vars
    /\ [][OwnState' # OwnState => OtherState' = OtherState]_vars
    /\ [][phase = "serving" => tools' = tools]_vars

\* the second request has failed on Docker after ten seconds, and the plan
\* beside it, whose first action had succeeded, is calling Docker for its second
C33_Witness ==
    /\ other.pc = "done" /\ other.ret = "err" /\ other.retAt = 10
    /\ other.reply.Error.present
    /\ req.method = "ExecutePlan" /\ pc = "blocked"
    /\ Len(invoked) = 2 /\ invoked[1].ret = "ok" /\ invoked[2].at = 10

\* C34: each request has a deadline of its own, 30 s from its own start; a
\* Docker call ends with the context's error only once the deadline of its own
\* request has passed; while a request's own deadline has not passed its Docker
\* call can still succeed, whatever became of the other request's deadline; and
\* a request that returns takes nothing from the other.
C34_OwnDeadline ==
    /\ [](\A k \in 1..Len(invoked) :
            /\ invoked[k].ctx = (IF req.method = "ExecutePlan" THEN PlanTimeout ELSE CallTimeout)
            /\ invoked[k].err = DeadlineExceeded => Expired(invoked[k].retAt, invoked[k].ctx))
    /\ [](other.invocations = 1
            => /\ other.deadline = CallTimeout
               /\ other.err = DeadlineExceeded => Expired(other.retAt, other.deadline))
    /\ []((other.pc = "blocked" /\ ~Expired(other.elapsed, other.deadline))
            => ENABLED OtherDockerCallSucceeds)
    /\ []((pc = "blocked" /\ ~Expired(elapsed, deadline)) => ENABLED DockerCallSucceeds)
    /\ [][(pc = "done" /\ pc' = "idle") => other' = other]_vars
    /\ [][(other.pc = "done" /\ other'.pc = "idle") => UNCHANGED <<OwnState, elapsed, deadline, callDeadline>>]_vars

\* the second request began twenty seconds into the first; the first ran into
\* its deadline ten seconds later, and the second succeeded ten seconds after that
C34_Witness ==
    /\ pc = "done" /\ elapsed = 30
    /\ reply.Error.present /\ Contains(reply.Error.Message, DeadlineExceeded)
    /\ other.pc = "done" /\ other.began = 20 /\ other.retAt = 20
    /\ other.ret = "ok" /\ other.reply.Result.present

====
